---------------------------- MODULE Spec2Model ----------------------------
(***************************************************************************)
(* Unit-economics engine of the Go / No-Go viability tool (src/app.py).    *)
(*                                                                         *)
(* The state is the most recent call of one of the engine's functions,     *)
(* the value it returned (or the exception it raised), and, for a          *)
(* re-pricing of the same product, the call before it; consulted is the    *)
(* list of price sources a price resolution went through.  session is the  *)
(* per-browser st.session_state of the research page and evaluation the    *)
(* number of research runs started in it; what a run or a chat message     *)
(* leaves in the session carries the number of the run it belongs to.      *)
(* External                                                                *)
(* collaborators (marketplace scrapes, text generation) are inputs of the  *)
(* calls: every outcome they can have is drawn from a bounded set.         *)
(*                                                                         *)
(* Arithmetic is exact.  Money is held in units of 1/Scale rupee, which    *)
(* is fine enough for every product of a table rate, the 18% fee GST, the  *)
(* two- and three-way averages and the 8/6 outer-box share to be a whole   *)
(* number; the tax backed out of the price, mrp*g/(100+g), is kept as a    *)
(* fraction until it is rounded.  round() is round-half-to-even on the     *)
(* exact value; the binary floats of the program can differ from it by at  *)
(* most one unit in the last rounded place, on exact ties only.            *)
(***************************************************************************)
EXTENDS Integers, Sequences, FiniteSets, TLC

VARIABLES call, ret, prev, consulted, session, evaluation

vars == <<call, ret, prev, consulted, session, evaluation>>

-----------------------------------------------------------------------------
(* Fixed-point helpers *)

Scale == 3 * 100000

Paisa == Scale \div 100

Rupees(n) == n * Scale

\* x is a multiple of 100 wherever this is used (see the header)
PercentOf(x, pct) == (x \div 100) * pct

\* round-half-to-even of n/d, d > 0 (Python 3 round())
RoundHalfEven(n, d) ==
  LET q == n \div d
      r == n % d
  IN  IF 2 * r < d THEN q
      ELSE IF 2 * r > d THEN q + 1
      ELSE IF q % 2 = 0 THEN q ELSE q + 1

\* round-half-to-even of a/A + b/B, A > 0, B > 0, without forming a*B
RoundSum(a, A, b, B) ==
  (a \div A) + (b \div B) + RoundHalfEven((a % A) * B + (b % B) * A, A * B)

\* round(x, 2) of an amount, as an amount
Round2(x) == RoundHalfEven(x, Paisa) * Paisa

Abs(x) == IF x < 0 THEN -x ELSE x

\* dict.get(key, default)
Get(d, key, default) == IF key \in DOMAIN d THEN d[key] ELSE default

\* an exception leaving the function
Raised(e) == [raised |-> e]

IsRaised(r) == "raised" \in DOMAIN r

-----------------------------------------------------------------------------
(* Rate tables: rates in percent (0.08 is 8), money in rupees unless noted *)

AMAZON_FEES ==
  [referral_fees |-> (
    "Grocery & Gourmet" :> 8 @@ "Health & Personal Care" :> 12 @@ "Beauty" :> 10 @@
    "Baby Products" :> 10 @@ "Pet Supplies" :> 15 @@ "Home & Kitchen" :> 12 @@
    "Electronics" :> 10 @@ "Sports & Fitness" :> 12 @@ "Other" :> 15),
   closing_fees |-> (
    "0-300" :> 26 @@ "301-500" :> 21 @@ "501-1000" :> 26 @@ "1000+" :> 51),
   weight_handling |-> (
    "local" :> (
      "0-500" :> 29 @@ "500-1000" :> 40 @@ "1000-2000" :> 54 @@ "2000+" :> 74) @@
    "regional" :> (
      "0-500" :> 43 @@ "500-1000" :> 58 @@ "1000-2000" :> 77 @@ "2000+" :> 102) @@
    "national" :> (
      "0-500" :> 57 @@ "500-1000" :> 77 @@ "1000-2000" :> 102 @@ "2000+" :> 137)),
   pick_pack_fee |-> 14,
   storage_fee_per_kg_month |-> 42,
   gst_on_fees |-> 18]

FLIPKART_FEES ==
  [commission_rates |-> (
    "Grocery & Gourmet" :> 5 @@ "Health & Personal Care" :> 12 @@
    "Beauty & Cosmetics" :> 10 @@ "Baby Care" :> 8 @@ "Pet Supplies" :> 14 @@
    "Home & Kitchen" :> 14 @@ "Electronics" :> 8 @@ "Sports" :> 12 @@ "Other" :> 12),
   fixed_fees |-> (
    "0-300" :> 11 @@ "301-500" :> 25 @@ "501-1000" :> 40 @@ "1000+" :> 60),
   shipping_fees |-> (
    "local" :> (
      "0-500" :> 25 @@ "500-1000" :> 35 @@ "1000-2000" :> 50 @@ "2000+" :> 70) @@
    "zonal" :> (
      "0-500" :> 40 @@ "500-1000" :> 55 @@ "1000-2000" :> 75 @@ "2000+" :> 100) @@
    "national" :> (
      "0-500" :> 55 @@ "500-1000" :> 75 @@ "1000-2000" :> 100 @@ "2000+" :> 135)),
   collection_fee_percent |-> 2,
   gst_on_fees |-> 18]

QUICK_COMMERCE_FEES == (
  "blinkit" :> [commission_rate |-> 30, listing_fee_monthly |-> 0,
      min_margin_required |-> 25, payment_cycle_days |-> 7,
      return_rate |-> 2] @@
  "zepto" :> [commission_rate |-> 28, listing_fee_monthly |-> 0,
      min_margin_required |-> 22, payment_cycle_days |-> 7,
      return_rate |-> 2] @@
  "swiggy_instamart" :> [commission_rate |-> 32, listing_fee_monthly |-> 0,
      min_margin_required |-> 25, payment_cycle_days |-> 7,
      return_rate |-> 3] @@
  "bigbasket" :> [commission_rate |-> 25, listing_fee_monthly |-> 500,
      min_margin_required |-> 20, payment_cycle_days |-> 14,
      return_rate |-> 4])

D2C_COSTS == (
  "shopify" :> [monthly_fee |-> 2499, transaction_fee |-> 2,
      payment_gateway_fee |-> 2] @@
  "woocommerce" :> [monthly_fee |-> 500, transaction_fee |-> 0,
      payment_gateway_fee |-> 2])

GST_RATES == (
  "Packaged Snacks" :> 12 @@ "Personal Care" :> 18 @@ "Supplements" :> 18 @@
  "Beverages" :> 12 @@ "Home Care" :> 18 @@ "Baby Products" :> 12 @@ "Pet Food" :> 18 @@
  "Electronics" :> 18 @@ "Dairy Products" :> 5 @@ "Fresh Food" :> 0 @@ "Other" :> 18)

\* INR per kg (per piece for the few unit-priced entries)
RAW_MATERIAL_COSTS == (
  "wheat_flour" :> 32 @@ "rice_flour" :> 45 @@ "maida" :> 35 @@ "besan" :> 85 @@
  "oats" :> 120 @@ "corn_flour" :> 40 @@ "ragi_flour" :> 55 @@ "multigrain_flour" :> 75 @@
  "palm_oil" :> 95 @@ "sunflower_oil" :> 140 @@ "coconut_oil" :> 180 @@
  "olive_oil" :> 650 @@ "mustard_oil" :> 150 @@ "groundnut_oil" :> 190 @@ "ghee" :> 450 @@
  "butter" :> 420 @@ "sugar" :> 42 @@ "jaggery" :> 55 @@ "honey" :> 280 @@
  "stevia" :> 1500 @@ "glucose_syrup" :> 65 @@ "milk_powder" :> 320 @@
  "whey_protein" :> 450 @@ "paneer" :> 320 @@ "cheese" :> 380 @@ "cream" :> 280 @@
  "soy_protein" :> 180 @@ "pea_protein" :> 350 @@ "chicken" :> 180 @@ "eggs" :> 6 @@
  "fish" :> 250 @@ "salt" :> 15 @@ "turmeric" :> 120 @@ "chili_powder" :> 180 @@
  "cumin" :> 220 @@ "coriander" :> 90 @@ "black_pepper" :> 450 @@ "cardamom" :> 2200 @@
  "cinnamon" :> 280 @@ "vanilla_extract" :> 3500 @@ "natural_flavors" :> 800 @@
  "peanuts" :> 120 @@ "almonds" :> 750 @@ "cashews" :> 850 @@ "walnuts" :> 950 @@
  "chia_seeds" :> 400 @@ "flax_seeds" :> 180 @@ "sunflower_seeds" :> 160 @@
  "pumpkin_seeds" :> 450 @@ "dried_fruits_mix" :> 350 @@ "tomato_paste" :> 95 @@
  "mango_pulp" :> 120 @@ "coconut" :> 80 @@ "dates" :> 180 @@
  "sodium_lauryl_sulfate" :> 180 @@ "glycerin" :> 120 @@ "citric_acid" :> 95 @@
  "sodium_bicarbonate" :> 45 @@ "fragrance_oils" :> 650 @@ "essential_oils" :> 1200 @@
  "preservatives" :> 450 @@ "emulsifiers" :> 380 @@ "thickeners" :> 220 @@
  "colorants" :> 850 @@ "hdpe_granules" :> 135 @@ "pet_granules" :> 125 @@
  "pp_granules" :> 145 @@ "aluminum_foil" :> 280 @@ "kraft_paper" :> 65 @@
  "corrugated_board" :> 45 @@ "glass" :> 25 @@ "labels" :> 2 @@ "caps_closures" :> 3)

\* cost in paise (the 1.5 rupee sachet is 150), weight_capacity in grams
PACKAGING_COSTS_DETAILED == (
  "pouch_small" :> [cost |-> 300, weight_capacity |-> 100] @@
  "pouch_medium" :> [cost |-> 500, weight_capacity |-> 250] @@
  "pouch_large" :> [cost |-> 800, weight_capacity |-> 500] @@
  "pouch_xl" :> [cost |-> 1200, weight_capacity |-> 1000] @@
  "box_small" :> [cost |-> 800, weight_capacity |-> 200] @@
  "box_medium" :> [cost |-> 1200, weight_capacity |-> 500] @@
  "box_large" :> [cost |-> 1800, weight_capacity |-> 1000] @@
  "bottle_plastic_small" :> [cost |-> 600, weight_capacity |-> 200] @@
  "bottle_plastic_medium" :> [cost |-> 1000, weight_capacity |-> 500] @@
  "bottle_plastic_large" :> [cost |-> 1500, weight_capacity |-> 1000] @@
  "bottle_glass_small" :> [cost |-> 1200, weight_capacity |-> 200] @@
  "bottle_glass_medium" :> [cost |-> 1800, weight_capacity |-> 500] @@
  "jar_plastic" :> [cost |-> 800, weight_capacity |-> 250] @@
  "jar_glass" :> [cost |-> 1500, weight_capacity |-> 250] @@
  "tube" :> [cost |-> 700, weight_capacity |-> 100] @@
  "sachet" :> [cost |-> 150, weight_capacity |-> 50] @@
  "can_metal" :> [cost |-> 1500, weight_capacity |-> 400] @@
  "tetrapack" :> [cost |-> 800, weight_capacity |-> 500])

SECONDARY_PACKAGING == (
  "corrugated_box_small" :> 8 @@ "corrugated_box_medium" :> 12 @@
  "corrugated_box_large" :> 18 @@ "bubble_wrap" :> 3 @@ "tape" :> 1 @@ "void_fill" :> 2)

MANUFACTURING_OVERHEAD == (
  "Packaged Snacks" :> 35 @@ "Personal Care" :> 45 @@ "Supplements" :> 55 @@
  "Beverages" :> 30 @@ "Home Care" :> 40 @@ "Baby Products" :> 50 @@ "Pet Food" :> 35 @@
  "Electronics" :> 25 @@ "Other" :> 40)

RETURN_RATES == (
  "Packaged Snacks" :> 3 @@ "Personal Care" :> 8 @@ "Supplements" :> 6 @@
  "Beverages" :> 4 @@ "Home Care" :> 5 @@ "Baby Products" :> 7 @@ "Pet Food" :> 4 @@
  "Electronics" :> 12 @@ "Fashion" :> 25 @@ "Other" :> 8)

LOGISTICS_RATES == (
  "delhivery" :> (
      "local" :> (
        "0-500" :> 35 @@ "500-1000" :> 45 @@ "1000-2000" :> 60) @@
      "regional" :> (
        "0-500" :> 50 @@ "500-1000" :> 65 @@ "1000-2000" :> 85) @@
      "national" :> (
        "0-500" :> 70 @@ "500-1000" :> 90 @@ "1000-2000" :> 120) @@
      "cod_charge" :> 35 @@ "rto_charge_percent" :> 100) @@
  "bluedart" :> (
      "local" :> (
        "0-500" :> 45 @@ "500-1000" :> 55 @@ "1000-2000" :> 75) @@
      "regional" :> (
        "0-500" :> 60 @@ "500-1000" :> 80 @@ "1000-2000" :> 105) @@
      "national" :> (
        "0-500" :> 85 @@ "500-1000" :> 110 @@ "1000-2000" :> 145) @@
      "cod_charge" :> 40 @@ "rto_charge_percent" :> 100) @@
  "ecom_express" :> (
      "local" :> (
        "0-500" :> 32 @@ "500-1000" :> 42 @@ "1000-2000" :> 55) @@
      "regional" :> (
        "0-500" :> 48 @@ "500-1000" :> 62 @@ "1000-2000" :> 80) @@
      "national" :> (
        "0-500" :> 65 @@ "500-1000" :> 85 @@ "1000-2000" :> 110) @@
      "cod_charge" :> 30 @@ "rto_charge_percent" :> 100) @@
  "xpressbees" :> (
      "local" :> (
        "0-500" :> 30 @@ "500-1000" :> 40 @@ "1000-2000" :> 52) @@
      "regional" :> (
        "0-500" :> 45 @@ "500-1000" :> 58 @@ "1000-2000" :> 75) @@
      "national" :> (
        "0-500" :> 60 @@ "500-1000" :> 78 @@ "1000-2000" :> 100) @@
      "cod_charge" :> 28 @@ "rto_charge_percent" :> 100))

CATEGORY_TO_PLATFORM_CATEGORY == (
  "Packaged Snacks" :> [amazon |-> "Grocery & Gourmet", flipkart |-> "Grocery & Gourmet"] @@
  "Personal Care" :> [amazon |-> "Health & Personal Care", flipkart |-> "Health & Personal Care"] @@
  "Supplements" :> [amazon |-> "Health & Personal Care", flipkart |-> "Health & Personal Care"] @@
  "Beverages" :> [amazon |-> "Grocery & Gourmet", flipkart |-> "Grocery & Gourmet"] @@
  "Home Care" :> [amazon |-> "Home & Kitchen", flipkart |-> "Home & Kitchen"] @@
  "Baby Products" :> [amazon |-> "Baby Products", flipkart |-> "Baby Care"] @@
  "Pet Food" :> [amazon |-> "Pet Supplies", flipkart |-> "Pet Supplies"] @@
  "Electronics" :> [amazon |-> "Electronics", flipkart |-> "Electronics"] @@
  "Other" :> [amazon |-> "Other", flipkart |-> "Other"])
-----------------------------------------------------------------------------
(* Platform fee calculator *)

\* price_bracket with the bracket ends left out (< for <=)
price_bracket_open(mrp) ==
  IF mrp < 300 THEN "0-300"
  ELSE IF mrp < 500 THEN "301-500"
  ELSE IF mrp < 1000 THEN "501-1000"
  ELSE "1000+"

\* the price bracket of the closing / fixed fee
price_bracket(mrp) ==
  IF mrp <= 300 THEN "0-300"
  ELSE IF mrp <= 500 THEN "301-500"
  ELSE IF mrp <= 1000 THEN "501-1000"
  ELSE "1000+"

\* the weight bracket of the weight-handling / shipping fee
weight_bracket(weight) ==
  IF weight <= 500 THEN "0-500"
  ELSE IF weight <= 1000 THEN "500-1000"
  ELSE IF weight <= 2000 THEN "1000-2000"
  ELSE "2000+"

\* platform_category_of without the mapping step
platform_category_unmapped(category, platform) == category

platform_category_of(category, platform) ==
  IF category \in DOMAIN CATEGORY_TO_PLATFORM_CATEGORY
    THEN Get(CATEGORY_TO_PLATFORM_CATEGORY[category], platform, "Other")
    ELSE "Other"

\* amazon_fees_of charging the GST on the selling price
amazon_fees_of_gst_on_price(mrp, weight, platform_category, shipping_zone) ==
  LET referral_rate == Get(AMAZON_FEES.referral_fees, platform_category, 15)
      referral_fee == PercentOf(Rupees(mrp), referral_rate)
      closing_fee == Rupees(AMAZON_FEES.closing_fees[price_bracket(mrp)])
  IN  IF shipping_zone \notin DOMAIN AMAZON_FEES.weight_handling
        THEN Raised("KeyError")
        ELSE
          LET weight_fee ==
                Rupees(AMAZON_FEES.weight_handling[shipping_zone][weight_bracket(weight)])
              total_fees == referral_fee + closing_fee + weight_fee
              gst_on_fees == PercentOf(Rupees(mrp), AMAZON_FEES.gst_on_fees)
          IN  [referral_fee |-> referral_fee,
               closing_fee |-> closing_fee,
               weight_handling_fee |-> weight_fee,
               gst_on_fees |-> gst_on_fees,
               total_platform_fee |-> total_fees + gst_on_fees,
               platform |-> "Amazon",
               fee_breakdown |-> [rate |-> referral_rate]]

\* the amazon branch of get_platform_fees
amazon_fees_of(mrp, weight, platform_category, shipping_zone) ==
  LET referral_rate == Get(AMAZON_FEES.referral_fees, platform_category, 15)
      referral_fee == PercentOf(Rupees(mrp), referral_rate)
      closing_fee == Rupees(AMAZON_FEES.closing_fees[price_bracket(mrp)])
  IN  IF shipping_zone \notin DOMAIN AMAZON_FEES.weight_handling
        THEN Raised("KeyError")
        ELSE
          LET weight_fee ==
                Rupees(AMAZON_FEES.weight_handling[shipping_zone][weight_bracket(weight)])
              total_fees == referral_fee + closing_fee + weight_fee
              gst_on_fees == PercentOf(total_fees, AMAZON_FEES.gst_on_fees)
          IN  [referral_fee |-> referral_fee,
               closing_fee |-> closing_fee,
               weight_handling_fee |-> weight_fee,
               gst_on_fees |-> gst_on_fees,
               total_platform_fee |-> total_fees + gst_on_fees,
               platform |-> "Amazon",
               fee_breakdown |-> [rate |-> referral_rate]]

flipkart_fees_of(mrp, weight, platform_category, shipping_zone) ==
  LET commission_rate == Get(FLIPKART_FEES.commission_rates, platform_category, 12)
      commission == PercentOf(Rupees(mrp), commission_rate)
      fixed_fee == Rupees(FLIPKART_FEES.fixed_fees[price_bracket(mrp)])
  IN  IF shipping_zone \notin DOMAIN FLIPKART_FEES.shipping_fees
        THEN Raised("KeyError")
        ELSE
          LET shipping_fee ==
                Rupees(FLIPKART_FEES.shipping_fees[shipping_zone][weight_bracket(weight)])
              collection_fee ==
                PercentOf(Rupees(mrp), FLIPKART_FEES.collection_fee_percent)
              total_fees == commission + fixed_fee + shipping_fee + collection_fee
              gst_on_fees == PercentOf(total_fees, FLIPKART_FEES.gst_on_fees)
          IN  [commission |-> commission,
               fixed_fee |-> fixed_fee,
               shipping_fee |-> shipping_fee,
               collection_fee |-> collection_fee,
               gst_on_fees |-> gst_on_fees,
               total_platform_fee |-> total_fees + gst_on_fees,
               platform |-> "Flipkart",
               fee_breakdown |-> [rate |-> commission_rate]]

get_platform_fees(mrp, weight, category, platform, shipping_zone) ==
  LET platform_category == platform_category_of(category, platform)
  IN  IF platform = "amazon"
        THEN amazon_fees_of(mrp, weight, platform_category, shipping_zone)
      ELSE IF platform = "flipkart"
        THEN flipkart_fees_of(mrp, weight, platform_category, shipping_zone)
      ELSE [total_platform_fee |-> PercentOf(Rupees(mrp), 25), platform |-> platform]

\* platform.title() of the app names the calls are made with
title_of(platform) ==
  CASE platform = "blinkit" -> "Blinkit"
    [] platform = "zepto" -> "Zepto"
    [] platform = "swiggy_instamart" -> "Swiggy_Instamart"
    [] platform = "bigbasket" -> "Bigbasket"
    [] OTHER -> "Dunzo"

get_quick_commerce_fees(mrp, platform) ==
  LET qc_data == Get(QUICK_COMMERCE_FEES, platform, QUICK_COMMERCE_FEES["blinkit"])
      commission == PercentOf(Rupees(mrp), qc_data.commission_rate)
      return_cost == PercentOf(Rupees(mrp), qc_data.return_rate)
  IN  [commission |-> commission,
       commission_rate |-> qc_data.commission_rate,
       listing_fee |-> qc_data.listing_fee_monthly,
       return_cost |-> return_cost,
       total_platform_fee |-> commission,
       platform |-> title_of(platform),
       payment_cycle |-> qc_data.payment_cycle_days,
       min_margin_required |-> qc_data.min_margin_required]

-----------------------------------------------------------------------------
(* JSON values of an external payload.  A key the payload lacks is JMissing. *)

JNum(n) == [t |-> "num", v |-> n]

JStr == [t |-> "str", v |-> 0]

JNull == [t |-> "null", v |-> 0]

JMissing == [t |-> "missing", v |-> 0]

\* payload.get(key, default)
JGet(j, default) == IF j.t = "missing" THEN default ELSE j

IsNum(j) == j.t = "num"

\* bool(x) of a JSON value
Truthy(j) == (j.t = "num" /\ j.v # 0) \/ j.t = "str"

-----------------------------------------------------------------------------
(* Ingredient price resolver *)

\* ingredient names the calls are made with, and what the two
\* normalisations of get_live_ingredient_price make of each
IngredientNames == {"sugar", "Wheat Flour", "dragon fruit", "unknown"}

\* name.lower().strip().replace("_", " ")
ingredient_clean_of(name) ==
  CASE name = "sugar" -> "sugar"
    [] name = "Wheat Flour" -> "wheat flour"
    [] name = "dragon fruit" -> "dragon fruit"
    [] OTHER -> "unknown"

\* name.lower().replace(" ", "_")
static_key_of(name) ==
  CASE name = "sugar" -> "sugar"
    [] name = "Wheat Flour" -> "wheat_flour"
    [] name = "dragon fruit" -> "dragon_fruit"
    [] OTHER -> "unknown"

RECURSIVE SortedInsert(_, _)
SortedInsert(s, x) ==
  IF s = <<>> THEN <<x>>
  ELSE IF x <= Head(s) THEN <<x>> \o s
  ELSE <<Head(s)>> \o SortedInsert(Tail(s), x)

\* list.sort()
RECURSIVE Sort(_)
Sort(s) == IF s = <<>> THEN <<>> ELSE SortedInsert(Sort(Tail(s)), Head(s))

RECURSIVE Filter(_, _, _)
Filter(s, lo, hi) ==
  IF s = <<>> THEN <<>>
  ELSE IF lo < Head(s) /\ Head(s) < hi
    THEN <<Head(s)>> \o Filter(Tail(s), lo, hi)
    ELSE Filter(Tail(s), lo, hi)

\* prices[len(prices)//2] of the sorted list (0-based index)
MiddleOf(prices) == prices[(Len(prices) \div 2) + 1]

\* does a listing of scrape_indiamart_price contribute its price?
\* fmt: "kg" a per-kg format, "bag" a per-bag/packet/piece/box/tonne/litre
\* one, "kg+box" a format naming both, "unit" another non-empty format,
\* "" no format at all
listing_qualifies(item) ==
  LET is_per_kg == item.fmt \in {"kg", "kg+box"}
      is_not_per_kg == item.fmt \in {"bag", "kg+box"}
  IN  /\ Truthy(item.itemprice)
      /\ (is_per_kg /\ ~is_not_per_kg) \/ item.fmt = ""
      /\ IsNum(item.itemprice)

RECURSIVE listing_prices(_)
listing_prices(results) ==
  IF results = <<>> THEN <<>>
  ELSE IF listing_qualifies(Head(results))
    THEN <<Head(results).itemprice.v>> \o listing_prices(Tail(results))
    ELSE listing_prices(Tail(results))

NoResult == [price |-> 0, source |-> "None", num_listings |-> 0, confidence |-> "none"]

\* results[:20]
FirstN(s, n) == IF Len(s) <= n THEN s ELSE SubSeq(s, 1, n)

\* page.ok: the request succeeded and the data script parsed;
\* page.items: the result list
indiamart_median(prices) ==
  IF prices # <<>>
    THEN [price |-> MiddleOf(Sort(prices)),
          source |-> "IndiaMART",
          num_listings |-> Len(prices),
          confidence |-> IF Len(prices) >= 3 THEN "high" ELSE "medium"]
    ELSE NoResult

scrape_indiamart_price(page) ==
  IF ~page.ok THEN NoResult
  ELSE indiamart_median(Filter(listing_prices(FirstN(page.items, 20)), 5, 5000))

\* page.ok: the request succeeded; page.items: the numbers the price
\* patterns matched in the result text
google_median(prices) ==
  IF prices # <<>>
    THEN [price |-> MiddleOf(Sort(prices)),
          source |-> "Google Search",
          num_listings |-> Len(prices),
          confidence |-> "none"]
    ELSE NoResult

scrape_google_price(page) ==
  IF ~page.ok THEN NoResult
  ELSE google_median(Filter(page.items, 5, 50000))

\* w.indiamart, w.google: the two pages; w.llm: the text-generation call,
\* ok when it answered with a parseable object, whose price_per_kg and
\* confidence it then carries; w.api_key: whether a key is configured
\* the tiers of get_live_ingredient_price, given what the scrapes returned
price_tiers(ingredient_name, w, scraped_price) ==
  LET ingredient_clean == ingredient_clean_of(ingredient_name)
      static_price == Get(RAW_MATERIAL_COSTS, static_key_of(ingredient_name), 0)
  IN  IF scraped_price # NoResult
        THEN [ingredient |-> ingredient_clean,
              price_per_kg |-> JNum(scraped_price.price),
              source |-> scraped_price.source,
              confidence |-> IF scraped_price.num_listings > 3 THEN "high" ELSE "medium",
              scraped |-> TRUE]
      ELSE IF w.api_key /\ w.llm.ok
        THEN [ingredient |-> ingredient_clean,
              price_per_kg |-> JGet(w.llm.price_per_kg, JNum(100)),
              source |-> "AI Estimate",
              confidence |-> IF w.llm.confidence = "missing" THEN "medium"
                             ELSE w.llm.confidence,
              scraped |-> FALSE]
      ELSE IF static_price # 0
        THEN [ingredient |-> ingredient_clean,
              price_per_kg |-> JNum(static_price),
              source |-> "Database (Fallback)",
              confidence |-> "medium",
              scraped |-> FALSE]
      ELSE [ingredient |-> ingredient_clean,
            price_per_kg |-> JNum(100),
            source |-> "Default",
            confidence |-> "low",
            scraped |-> FALSE]

\* first_scraped preferring the Google result
first_scraped_google(indiamart_result, google_result) ==
  IF google_result # NoResult THEN google_result ELSE indiamart_result

\* scraped_price: the IndiaMART result, or the Google one when it is empty
first_scraped(indiamart_result, google_result) ==
  IF indiamart_result # NoResult THEN indiamart_result ELSE google_result

\* the sources get_live_ingredient_price goes through, in the order it
\* asks them: the text generation only with a key, the static table only
\* when no generated answer was returned, the default only when the table
\* has no price
sources_after_scrapes(ingredient_name, w) ==
  (IF w.api_key THEN <<"AI Estimate">> ELSE <<>>)
  \o (IF w.api_key /\ w.llm.ok THEN <<>>
      ELSE <<"Database (Fallback)">>
           \o (IF Get(RAW_MATERIAL_COSTS, static_key_of(ingredient_name), 0) # 0
                 THEN <<>> ELSE <<"Default">>))

sources_consulted(ingredient_name, w) ==
  <<"IndiaMART">>
  \o (IF scrape_indiamart_price(w.indiamart) # NoResult THEN <<>>
      ELSE <<"Google Search">>
           \o (IF scrape_google_price(w.google) # NoResult THEN <<>>
               ELSE sources_after_scrapes(ingredient_name, w)))

get_live_ingredient_price(ingredient_name, w) ==
  price_tiers(ingredient_name, w,
              first_scraped(scrape_indiamart_price(w.indiamart),
                            scrape_google_price(w.google)))

-----------------------------------------------------------------------------
(* Ingredient analyzer and manufacturing cost estimator *)

\* w.analyzer.ok: the call answered with a parseable JSON array, which is
\* w.analyzer.items; None is the failed analyzer
analyze_product_ingredients(w) ==
  IF ~w.api_key THEN [ok |-> FALSE, items |-> <<>>]
  ELSE IF w.analyzer.ok THEN w.analyzer
  ELSE [ok |-> FALSE, items |-> <<>>]

\* one pass of the pricing loop: the list entry is an object (item.dict) whose
\* "ingredient" and "quantity_grams" may be absent or of any JSON type, or
\* it is no object at all.  exact_cost is the unrounded cost the loop adds
\* to total_raw_cost; cost is the rounded one it reports.
priced_with(item, ingredient_name, price_info) ==
  LET quantity_grams == JGet(item.quantity_grams, JNum(10))
      price_per_kg == price_info.price_per_kg
  IN  IF ~IsNum(quantity_grams) \/ ~IsNum(price_per_kg) THEN Raised("TypeError")
      ELSE [name |-> ingredient_name,
            quantity_grams |-> quantity_grams.v,
            cost_per_kg |-> price_per_kg.v,
            exact_cost |-> quantity_grams.v * price_per_kg.v * (Scale \div 1000),
            cost |-> Round2(quantity_grams.v * price_per_kg.v * (Scale \div 1000)),
            price_source |-> price_info.source,
            price_confidence |-> price_info.confidence]

ingredient_name_of(item) ==
  IF item.ingredient = "missing" THEN "unknown" ELSE item.ingredient

priced_item(item, w) ==
  IF ~item.dict THEN Raised("AttributeError")
  ELSE priced_with(item, ingredient_name_of(item),
                   get_live_ingredient_price(ingredient_name_of(item), w))

RECURSIVE priced_items(_, _)
priced_items(items, w) ==
  IF items = <<>> THEN <<>>
  ELSE <<priced_item(Head(items), w)>> \o priced_items(Tail(items), w)

RECURSIVE SumCost(_)
SumCost(raw_materials) ==
  IF raw_materials = <<>> THEN 0
  ELSE Head(raw_materials).exact_cost + SumCost(Tail(raw_materials))

\* the category table of the fallback estimate, in paise per gram
base_cost_per_gram == (
  "Packaged Snacks" :> 12 @@ "Personal Care" :> 20 @@ "Supplements" :> 45 @@
  "Beverages" :> 8 @@ "Home Care" :> 10 @@ "Baby Products" :> 30 @@
  "Pet Food" :> 15 @@ "Other" :> 18)

\* the estimate made of the priced ingredient list
priced_estimate(raw_materials, category, weight) ==
  LET failed == {i \in 1..Len(raw_materials) : IsRaised(raw_materials[i])}
  IN  IF failed # {}
        THEN raw_materials[CHOOSE i \in failed : \A j \in failed : i <= j]
        ELSE
          LET total_raw_cost == SumCost(raw_materials)
              overhead_rate == Get(MANUFACTURING_OVERHEAD, category, 40)
              overhead_cost == PercentOf(total_raw_cost, overhead_rate)
          IN  [raw_materials |-> raw_materials,
               total_raw_material_cost |-> JNum(Round2(total_raw_cost)),
               manufacturing_overhead_percent |-> overhead_rate,
               manufacturing_overhead_cost |-> JNum(Round2(overhead_cost)),
               total_manufacturing_cost |-> JNum(Round2(total_raw_cost + overhead_cost)),
               \* round(total / weight, 3)
               cost_per_gram |->
                 JNum(RoundHalfEven(total_raw_cost + overhead_cost,
                                    weight * (Scale \div 1000)) * (Scale \div 1000)),
               reasoning |-> "AI-analyzed ingredients with live/estimated pricing"]

analysis_estimate(ingredients, category, weight, w) ==
  priced_estimate(priced_items(FirstN(ingredients, 15), w), category, weight)

\* the object the direct estimate returns is the generated payload itself
direct_estimate(payload) ==
  [raw_materials |-> <<>>,
   total_raw_material_cost |-> JMissing,
   manufacturing_overhead_percent |-> 0,
   manufacturing_overhead_cost |-> JMissing,
   total_manufacturing_cost |-> payload.total_manufacturing_cost,
   reasoning |-> payload.reasoning]

\* category_estimate taking the whole benchmark as raw material
category_estimate_whole(category, weight) ==
  LET cost_per_gram == Get(base_cost_per_gram, category, 18)
      raw_material_cost == cost_per_gram * weight * 10 * (Scale \div 1000)
      overhead == PercentOf(raw_material_cost, Get(MANUFACTURING_OVERHEAD, category, 40))
  IN  [raw_materials |-> <<[name |-> "estimated_mix", quantity_grams |-> weight,
                            cost_per_kg |-> cost_per_gram * 10,
                            exact_cost |-> raw_material_cost,
                            cost |-> raw_material_cost,
                            price_source |-> "", price_confidence |-> ""]>>,
       total_raw_material_cost |-> JNum(raw_material_cost),
       manufacturing_overhead_percent |-> Get(MANUFACTURING_OVERHEAD, category, 40),
       manufacturing_overhead_cost |-> JNum(overhead),
       total_manufacturing_cost |-> JNum(raw_material_cost + overhead),
       cost_per_gram |-> JNum((raw_material_cost + overhead) \div weight),
       reasoning |-> "Fallback estimation based on category benchmarks"]

\* the category fallback of estimate_raw_material_cost
category_estimate(category, weight) ==
  LET cost_per_gram == Get(base_cost_per_gram, category, 18)
      \* cost_per_gram * weight * 0.7, cost_per_gram in paise
      raw_material_cost == cost_per_gram * weight * 7 * (Scale \div 1000)
      overhead == PercentOf(raw_material_cost, Get(MANUFACTURING_OVERHEAD, category, 40))
  IN  [raw_materials |-> <<[name |-> "estimated_mix", quantity_grams |-> weight,
                            cost_per_kg |-> cost_per_gram * 10,
                            exact_cost |-> raw_material_cost,
                            cost |-> raw_material_cost,
                            price_source |-> "", price_confidence |-> ""]>>,
       total_raw_material_cost |-> JNum(raw_material_cost),
       manufacturing_overhead_percent |-> Get(MANUFACTURING_OVERHEAD, category, 40),
       manufacturing_overhead_cost |-> JNum(overhead),
       total_manufacturing_cost |-> JNum(raw_material_cost + overhead),
       cost_per_gram |-> JNum((raw_material_cost + overhead) \div weight),
       reasoning |-> "Fallback estimation based on category benchmarks"]

\* w.direct: the single-shot estimate call, ok when it answered with a
\* parseable object
estimate_raw_material_cost(category, weight, w) ==
  LET ingredients == analyze_product_ingredients(w)
  IN  IF ingredients.ok /\ Len(ingredients.items) > 0
        THEN analysis_estimate(ingredients.items, category, weight, w)
      ELSE IF w.api_key /\ w.direct.ok
        THEN direct_estimate(w.direct)
      ELSE category_estimate(category, weight)

-----------------------------------------------------------------------------
(* Packaging cost estimator *)

\* auto_packaging_type with the snack brackets closed below (< for <=)
auto_packaging_type_under(weight, category) ==
  IF category \in {"Packaged Snacks"}
    THEN IF weight < 100 THEN "pouch_small"
         ELSE IF weight <= 250 THEN "pouch_medium"
         ELSE IF weight <= 500 THEN "pouch_large"
         ELSE "pouch_xl"
  ELSE IF category \in {"Personal Care", "Home Care"}
    THEN IF weight <= 200 THEN "bottle_plastic_small"
         ELSE IF weight <= 500 THEN "bottle_plastic_medium"
         ELSE "bottle_plastic_large"
  ELSE IF category \in {"Beverages"}
    THEN IF weight <= 200 THEN "tetrapack"
         ELSE IF weight <= 500 THEN "bottle_plastic_medium"
         ELSE "bottle_plastic_large"
  ELSE IF category \in {"Supplements"}
    THEN IF weight <= 100 THEN "jar_plastic"
         ELSE "bottle_plastic_medium"
  ELSE "box_medium"

\* auto_packaging_type with the glass jar for light supplements
auto_packaging_type_glass(weight, category) ==
  IF category \in {"Packaged Snacks"}
    THEN IF weight <= 100 THEN "pouch_small"
         ELSE IF weight <= 250 THEN "pouch_medium"
         ELSE IF weight <= 500 THEN "pouch_large"
         ELSE "pouch_xl"
  ELSE IF category \in {"Personal Care", "Home Care"}
    THEN IF weight <= 200 THEN "bottle_plastic_small"
         ELSE IF weight <= 500 THEN "bottle_plastic_medium"
         ELSE "bottle_plastic_large"
  ELSE IF category \in {"Beverages"}
    THEN IF weight <= 200 THEN "tetrapack"
         ELSE IF weight <= 500 THEN "bottle_plastic_medium"
         ELSE "bottle_plastic_large"
  ELSE IF category \in {"Supplements"}
    THEN IF weight <= 100 THEN "jar_glass"
         ELSE "bottle_plastic_medium"
  ELSE "box_medium"

\* packaging_type "" is the unspecified (None) argument
auto_packaging_type(weight, category) ==
  IF category \in {"Packaged Snacks"}
    THEN IF weight <= 100 THEN "pouch_small"
         ELSE IF weight <= 250 THEN "pouch_medium"
         ELSE IF weight <= 500 THEN "pouch_large"
         ELSE "pouch_xl"
  ELSE IF category \in {"Personal Care", "Home Care"}
    THEN IF weight <= 200 THEN "bottle_plastic_small"
         ELSE IF weight <= 500 THEN "bottle_plastic_medium"
         ELSE "bottle_plastic_large"
  ELSE IF category \in {"Beverages"}
    THEN IF weight <= 200 THEN "tetrapack"
         ELSE IF weight <= 500 THEN "bottle_plastic_medium"
         ELSE "bottle_plastic_large"
  ELSE IF category \in {"Supplements"}
    THEN IF weight <= 100 THEN "jar_plastic"
         ELSE "bottle_plastic_medium"
  ELSE "box_medium"

estimate_packaging_cost(weight, category, packaging_type) ==
  LET chosen == IF packaging_type = "" THEN auto_packaging_type(weight, category)
                ELSE packaging_type
      primary_packaging ==
        Get(PACKAGING_COSTS_DETAILED, chosen, [cost |-> 1000]).cost * Paisa
      labels == Rupees(Get(RAW_MATERIAL_COSTS, "labels", 2))
      closures == Rupees(Get(RAW_MATERIAL_COSTS, "caps_closures", 3))
      secondary == Rupees(SECONDARY_PACKAGING["corrugated_box_small"]) \div 6
  IN  [primary_packaging |-> primary_packaging,
       packaging_type |-> chosen,
       labels |-> labels,
       closures |-> closures,
       secondary_packaging |-> secondary,
       total_packaging_cost |-> primary_packaging + labels + closures + secondary]

-----------------------------------------------------------------------------
(* Unit economics aggregator *)

\* the three quick-commerce apps whose fees are averaged
quick_commerce_apps == <<"blinkit", "zepto", "swiggy_instamart">>

RECURSIVE SumFees(_, _)
SumFees(apps, mrp) ==
  IF apps = <<>> THEN 0
  ELSE get_quick_commerce_fees(mrp, Head(apps)).total_platform_fee
       + SumFees(Tail(apps), mrp)

quick_commerce_platform_fees(mrp) ==
  SumFees(quick_commerce_apps, mrp) \div Len(quick_commerce_apps)

\* logistics_cost_of with the flat 45 rupees of a simplified cost table
logistics_cost_flat(weight) == Rupees(45)

\* xpressbees national rate by weight bracket
logistics_cost_of(weight) ==
  LET logistics_data == LOGISTICS_RATES["xpressbees"]
  IN  IF weight <= 500 THEN Rupees(logistics_data["national"]["0-500"])
      ELSE IF weight <= 1000 THEN Rupees(logistics_data["national"]["500-1000"])
      ELSE Rupees(logistics_data["national"]["1000-2000"])

\* step 3: [platform_fees, logistics_cost, return_rate (in thousandths)],
\* or the exception of a fee calculation
marketplace_costs(category, weight, amazon_fees, flipkart_fees) ==
  IF IsRaised(amazon_fees) THEN amazon_fees
  ELSE IF IsRaised(flipkart_fees) THEN flipkart_fees
  ELSE [platform_fees |->
          (amazon_fees.total_platform_fee + flipkart_fees.total_platform_fee) \div 2,
        logistics_cost |-> logistics_cost_of(weight),
        return_rate |-> 10 * Get(RETURN_RATES, category, 8)]

channel_costs(category, weight, mrp, channel) ==
  IF channel = "E-commerce"
    THEN marketplace_costs(category, weight,
                           get_platform_fees(mrp, weight, category, "amazon", "national"),
                           get_platform_fees(mrp, weight, category, "flipkart", "national"))
  ELSE IF channel = "Quick Commerce"
    THEN [platform_fees |-> quick_commerce_platform_fees(mrp),
          logistics_cost |-> 0,
          return_rate |-> 25]
  ELSE [platform_fees |->
          PercentOf(Rupees(mrp), D2C_COSTS["shopify"].transaction_fee)
          + PercentOf(Rupees(mrp), D2C_COSTS["shopify"].payment_gateway_fee),
        logistics_cost |-> logistics_cost_of(weight),
        return_rate |-> 10 * Get(RETURN_RATES, category, 8)]

\* step 7: the six costs summed before tax
total_cost_of(manufacturing, packaging, platform, logistics, returns, marketing) ==
  manufacturing + packaging + platform + logistics + returns + marketing

\* gst_liability = mrp * gst_rate / (1 + gst_rate) is the fraction
\* gst_num(mrp, gst_rate) / gst_den(gst_rate) of a rupee
gst_num(mrp, gst_rate) == mrp * gst_rate

gst_den(gst_rate) == 100 + gst_rate

\* the rounded fields, in paise
reported_gst_liability(mrp, gst_rate) ==
  RoundHalfEven(100 * gst_num(mrp, gst_rate), gst_den(gst_rate))

\* reported_total_cost without the tax
reported_total_cost_pretax(total_cost, mrp, gst_rate) ==
  RoundHalfEven(total_cost, Paisa)

\* round(total_cost + gst_liability, 2)
reported_total_cost(total_cost, mrp, gst_rate) ==
  RoundSum(total_cost, Paisa, 100 * gst_num(mrp, gst_rate), gst_den(gst_rate))

\* reported_net_margin without the tax
reported_net_margin_pretax(total_cost, mrp, gst_rate) ==
  RoundHalfEven(Rupees(mrp) - total_cost, Paisa)

\* round(mrp - total_cost - gst_liability, 2)
reported_net_margin(total_cost, mrp, gst_rate) ==
  RoundSum(Rupees(mrp) - total_cost, Paisa,
           -(100 * gst_num(mrp, gst_rate)), gst_den(gst_rate))

\* reported_margin_percentage of the margin before tax
reported_margin_percentage_pretax(total_cost, mrp, gst_rate) ==
  IF mrp > 0
    THEN RoundHalfEven(Rupees(mrp) - total_cost, (Scale \div 1000) * mrp)
    ELSE 0

\* round((net_margin / mrp) * 100, 1), in tenths of a percent
reported_margin_percentage(total_cost, mrp, gst_rate) ==
  IF mrp > 0
    THEN RoundSum(Rupees(mrp) - total_cost, (Scale \div 1000) * mrp,
                  -(1000 * gst_rate), gst_den(gst_rate))
    ELSE 0

\* net_margin = mrp - total_cost - gst_liability, unrounded, as the mixed
\* number whole + part / (Scale * gst_den(gst_rate)) with 0 <= part
net_margin_of(total_cost, mrp, gst_rate) ==
  LET whole == ((Rupees(mrp) - total_cost) \div Scale)
               - (gst_num(mrp, gst_rate) \div gst_den(gst_rate))
      part == ((Rupees(mrp) - total_cost) % Scale) * gst_den(gst_rate)
              - (gst_num(mrp, gst_rate) % gst_den(gst_rate)) * Scale
  IN  IF part < 0
        THEN [whole |-> whole - 1, part |-> part + Scale * gst_den(gst_rate)]
        ELSE [whole |-> whole, part |-> part]

\* mixed numbers over one denominator D
MixPositive(x) == x.whole > 0 \/ (x.whole = 0 /\ x.part > 0)

MixLess(x, y) == x.whole < y.whole \/ (x.whole = y.whole /\ x.part < y.part)

MixAdd(x, y, D) ==
  [whole |-> x.whole + y.whole + ((x.part + y.part) \div D),
   part |-> (x.part + y.part) % D]

MixSub(x, y, D) ==
  IF x.part >= y.part
    THEN [whole |-> x.whole - y.whole, part |-> x.part - y.part]
    ELSE [whole |-> x.whole - y.whole - 1, part |-> x.part + D - y.part]

\* one binary digit of a division: h is the division of x by 2y
MixDivStep(h, y, D) ==
  IF MixLess(h.r, y) THEN [q |-> 2 * h.q, r |-> h.r]
  ELSE [q |-> 2 * h.q + 1, r |-> MixSub(h.r, y, D)]

\* quotient and remainder of x / y, 0 <= x, 0 < y
RECURSIVE MixDiv(_, _, _)
MixDiv(x, y, D) ==
  IF MixLess(x, y) THEN [q |-> 0, r |-> x]
  ELSE MixDivStep(MixDiv(x, MixAdd(y, y, D), D), y, D)

\* round(n / x) of a whole number n, half to even: the floor of
\* (2n + x) / 2x, less one on a tie that would round to an odd number
RoundQuotient(d) ==
  IF d.r.whole = 0 /\ d.r.part = 0 /\ d.q % 2 = 1 THEN d.q - 1 ELSE d.q

MixRoundDiv(n, x, D) ==
  RoundQuotient(MixDiv(MixAdd([whole |-> 2 * n, part |-> 0], x, D), MixAdd(x, x, D), D))

\* the "N/A" of a break-even that cannot be reached
NotAchievable == [t |-> "N/A", v |-> 0]

monthly_fixed_costs == 50000

\* breakeven_units_monthly reporting 0 for a margin that is not positive
breakeven_units_monthly_zero(net_margin, D) ==
  IF MixPositive(net_margin)
    THEN JNum(MixRoundDiv(monthly_fixed_costs, net_margin, D))
    ELSE JNum(0)

\* round(monthly_fixed_costs / net_margin) if net_margin > 0, else "N/A"
breakeven_units_monthly(net_margin, D) ==
  IF MixPositive(net_margin)
    THEN JNum(MixRoundDiv(monthly_fixed_costs, net_margin, D))
    ELSE NotAchievable

\* the two margin thresholds of a channel's advice, in percent, with the
\* Quick Commerce ones below the E-commerce ones
channel_thresholds_lower(current_channel) ==
  IF current_channel = "Quick Commerce" THEN <<5, 15>>
  ELSE IF current_channel = "E-commerce" THEN <<10, 20>>
  ELSE <<20, 35>>

\* the two margin thresholds of a channel's advice, in percent
channel_thresholds(current_channel) ==
  IF current_channel = "Quick Commerce" THEN <<15, 25>>
  ELSE IF current_channel = "E-commerce" THEN <<10, 20>>
  ELSE <<20, 35>>

\* the three advisory texts of a channel, lowest tier first
channel_messages(current_channel) ==
  IF current_channel = "Quick Commerce"
    THEN <<"Quick Commerce margins are thin. Consider E-commerce or D2C for better margins.",
           "Viable for Quick Commerce but monitor closely. High volume needed.",
           "Excellent margins for Quick Commerce. Good channel fit.">>
  ELSE IF current_channel = "E-commerce"
    THEN <<"E-commerce margins are negative/very low. Review pricing or costs.",
           "Margins are acceptable but tight. Focus on volume and reviews.",
           "Healthy E-commerce margins. Consider Prime/FBA for faster growth.">>
  ELSE <<"D2C requires higher margins to cover CAC. Consider price increase.",
         "Decent D2C margins but CAC must be controlled.",
         "Excellent D2C margins. Invest in brand building and retention.">>

\* get_channel_recommendation: margin_percent in hundredths of a percent
get_channel_recommendation(margin_percent, current_channel, category) ==
  IF margin_percent < 100 * channel_thresholds(current_channel)[1]
    THEN channel_messages(current_channel)[1]
  ELSE IF margin_percent < 100 * channel_thresholds(current_channel)[2]
    THEN channel_messages(current_channel)[2]
  ELSE channel_messages(current_channel)[3]

\* margin_percentage < t for the unrounded margin: net_margin < t% of mrp
margin_below(net_margin, mrp, t, D) ==
  MixLess(net_margin, [whole |-> (t * mrp) \div 100,
                       part |-> ((t * mrp) % 100) * (D \div 100)])

\* get_channel_recommendation of the report's own unrounded margin
channel_recommendation_of(net_margin, mrp, current_channel, D) ==
  IF margin_below(net_margin, mrp, channel_thresholds(current_channel)[1], D)
    THEN channel_messages(current_channel)[1]
  ELSE IF margin_below(net_margin, mrp, channel_thresholds(current_channel)[2], D)
    THEN channel_messages(current_channel)[2]
  ELSE channel_messages(current_channel)[3]

\* steps 4 to 9, given the results of steps 1 to 3
economics_of(category, mrp, channel, manufacturing_data, packaging_data, costs) ==
  IF IsRaised(manufacturing_data) THEN manufacturing_data
  ELSE IF manufacturing_data.total_manufacturing_cost.t = "missing"
    THEN Raised("KeyError")
  ELSE IF IsRaised(costs) THEN costs
  ELSE IF ~IsNum(manufacturing_data.total_manufacturing_cost)
    THEN Raised("TypeError")
  ELSE
    LET manufacturing_cost == manufacturing_data.total_manufacturing_cost.v
        packaging_cost == packaging_data.total_packaging_cost
        returns_cost == (Rupees(mrp) \div 1000) * costs.return_rate
        gst_rate == Get(GST_RATES, category, 18)
        marketing_allocation == PercentOf(Rupees(mrp), 10)
        total_cost == total_cost_of(manufacturing_cost, packaging_cost,
                                    costs.platform_fees, costs.logistics_cost,
                                    returns_cost, marketing_allocation)
    IN  [manufacturing_cost |-> RoundHalfEven(manufacturing_cost, Paisa),
         packaging_cost |-> RoundHalfEven(packaging_cost, Paisa),
         platform_fees |-> RoundHalfEven(costs.platform_fees, Paisa),
         logistics_cost |-> RoundHalfEven(costs.logistics_cost, Paisa),
         returns_cost |-> RoundHalfEven(returns_cost, Paisa),
         marketing_allocation |-> RoundHalfEven(marketing_allocation, Paisa),
         gst_liability |-> reported_gst_liability(mrp, gst_rate),
         total_cost |-> reported_total_cost(total_cost, mrp, gst_rate),
         net_margin |-> reported_net_margin(total_cost, mrp, gst_rate),
         margin_percentage |-> reported_margin_percentage(total_cost, mrp, gst_rate),
         manufacturing_breakdown |-> manufacturing_data,
         packaging_breakdown |-> packaging_data,
         return_rate |-> costs.return_rate,
         gst_rate |-> gst_rate,
         breakeven_units_monthly |->
           breakeven_units_monthly(net_margin_of(total_cost, mrp, gst_rate),
                                   Scale * gst_den(gst_rate)),
         channel |-> channel,
         channel_recommendation |->
           channel_recommendation_of(net_margin_of(total_cost, mrp, gst_rate), mrp,
                                     channel, Scale * gst_den(gst_rate))]

calculate_unit_economics(category, weight, mrp, channel, w) ==
  economics_of(category, mrp, channel,
               estimate_raw_material_cost(category, weight, w),
               estimate_packaging_cost(weight, category, ""),
               channel_costs(category, weight, mrp, channel))

\* get_recommendation with the Pilot band open at both ends
get_recommendation_open(margin_percentage) ==
  IF margin_percentage <= 1000 THEN "nogo"
  ELSE IF margin_percentage < 2000 THEN "pilot"
  ELSE "go"

\* get_recommendation: margin_percentage in hundredths of a percent
get_recommendation(margin_percentage) ==
  IF margin_percentage < 1000 THEN "nogo"
  ELSE IF margin_percentage <= 2000 THEN "pilot"
  ELSE "go"

-----------------------------------------------------------------------------
(* Research run, board meeting and session state.  A persona call returns  *)
(* "text" or, when it fails, "none" (None).  What a run leaves in the       *)
(* session carries the number of the run.                                  *)

\* the order in which the board's loops go through the personas
AgentTypes == <<"marketing", "strategy", "gtm", "finance">>

AgentSet == {AgentTypes[i] : i \in 1..Len(AgentTypes)}

None == [t |-> "none"]

\* st.session_state after the initialisation block
InitialSession ==
  [research_complete |-> FALSE,
   research_results |-> None,
   competitors |-> None,
   agent_outputs |-> [evaluation |-> 0, outputs |-> [a \in {} |-> "text"]],
   board_discussion |-> [evaluation |-> 0, entries |-> <<>>],
   chat_history |-> [a \in AgentSet |-> <<>>],
   product_context |-> [evaluation |-> 0]]

\* agent_outputs.get(agent, placeholder)[:400]: the placeholder for a
\* persona that was not run, a TypeError for one whose call returned None
analysis_excerpt(agent_outputs, agent) ==
  IF agent \notin DOMAIN agent_outputs THEN "placeholder"
  ELSE IF agent_outputs[agent] = "none" THEN "TypeError"
  ELSE "text"

\* the four analyses as the discussion and verdict prompts quote them
quoted_analyses(agent_outputs) ==
  IF \E a \in AgentSet : analysis_excerpt(agent_outputs, a) = "TypeError"
    THEN Raised("TypeError")
    ELSE [a \in AgentSet |-> analysis_excerpt(agent_outputs, a)]

\* the calls of the two rounds, in order
discussion_calls ==
  [i \in 1..(2 * Len(AgentTypes)) |->
     [round |-> ((i - 1) \div Len(AgentTypes)) + 1,
      agent |-> AgentTypes[((i - 1) % Len(AgentTypes)) + 1]]]

\* replies: the calls of the discussion that are answered
run_board_discussion(agent_outputs, replies) ==
  IF IsRaised(quoted_analyses(agent_outputs)) THEN Raised("TypeError")
  ELSE [entries |-> SelectSeq(discussion_calls, LAMBDA c : c \in replies)]

generate_board_verdict(agent_outputs, discussion, verdict) ==
  IF IsRaised(quoted_analyses(agent_outputs)) THEN Raised("TypeError")
  ELSE [board_verdict |-> verdict]

\* the run after the board discussion step
verdict_step(s, n, product_analysis, agent_outputs, entries, board_verdict) ==
  IF IsRaised(board_verdict) THEN [ret |-> board_verdict, session |-> s]
  ELSE [ret |-> [evaluation |-> n,
                 product_analysis |-> product_analysis,
                 agent_outputs |-> agent_outputs,
                 board_discussion |-> entries,
                 board_verdict |-> board_verdict.board_verdict],
        session |-> s]

\* the run from the board discussion on, discussion being its result
discussion_step(s, n, in, discussion) ==
  IF IsRaised(discussion) THEN [ret |-> discussion, session |-> s]
  ELSE verdict_step(
         [s EXCEPT !.board_discussion = [evaluation |-> n, entries |-> discussion.entries]],
         n, in.product_analysis, in.outputs, discussion.entries,
         generate_board_verdict(in.outputs, discussion.entries, in.verdict))

\* run n of run_market_research_agent in session s, with competitor
\* search and market sizing switched off.  economics_data is what
\* calculate_unit_economics returned; in.outputs holds the outcome of the
\* quick analysis of every persona that is switched on.  The result is
\* what the function returns or raises, and the session it leaves.
run_market_research_agent(s, n, economics_data, in) ==
  IF IsRaised(economics_data) THEN [ret |-> economics_data, session |-> s]
  ELSE IF Cardinality(DOMAIN in.outputs) >= 2
    THEN discussion_step(
           [s EXCEPT !.product_context = [evaluation |-> n],
                     !.agent_outputs = [evaluation |-> n, outputs |-> in.outputs]],
           n, in, run_board_discussion(in.outputs, in.replies))
  ELSE verdict_step(
         [s EXCEPT !.product_context = [evaluation |-> n],
                   !.agent_outputs = [evaluation |-> n, outputs |-> in.outputs]],
         n, in.product_analysis, in.outputs, <<>>,
         generate_board_verdict(in.outputs, <<>>, in.verdict))

\* the Run Research handler after the run returned
research_stored(out) ==
  IF IsRaised(out.ret) THEN out.session
  ELSE [out.session EXCEPT !.research_results = out.ret,
                           !.research_complete = TRUE]

\* the results section, with the chat tab, is on the page
results_shown(s) == s.research_complete /\ s.research_results # None

\* the number of chat messages the session holds
RECURSIVE messages_held(_, _)
messages_held(chat_history, i) ==
  IF i = 0 THEN 0
  ELSE Len(chat_history[AgentTypes[i]]) + messages_held(chat_history, i - 1)

-----------------------------------------------------------------------------
(* Inputs.  An external answer is part of a call's world only when the     *)
(* call asks for it: a tier that is not reached, and any text generation   *)
(* without an API key, is recorded as the failed answer.                   *)

\* the categories of the form, and three names that only some tables know
Categories ==
  {"Packaged Snacks", "Personal Care", "Supplements", "Beverages", "Home Care",
   "Baby Products", "Pet Food", "Electronics", "Other",
   "Fashion", "Dairy Products", "Fresh Food"}

Channels == {"E-commerce", "Quick Commerce", "D2C"}

\* the form clamps the price to 50..2000: both ends and both sides of
\* every fee bracket, and two prices at which a margin rounds to a
\* threshold of the verdict
Prices ==
  {50, 149, 299, 300, 301, 395, 499, 500, 501, 510, 750, 999, 1000, 1001, 1999, 2000}

\* the form clamps the weight to 50..1000
Weights == {50, 200, 600}

\* weights an estimate is asked about: the form's range with both ends
EstimateWeights == Weights \cup {1000}

\* weights a fee calculation can be asked about
FeeWeights == {50, 500, 501, 1001, 2001}

Platforms == {"amazon", "flipkart", "other"}

ShippingZones == {"local", "regional", "zonal", "national"}

\* weights a packaging estimate is asked about: the ends of the form's
\* range and both sides of every bracket
PackagingWeights == {50, 99, 100, 101, 200, 201, 250, 251, 500, 501, 1000}

\* packaging types a caller names: none, one of the catalog, an unknown one
PackagingTypes == {"", "sachet", "crate"}

\* the configured quick-commerce apps and a name that is not configured
QuickCommerceApps == DOMAIN QUICK_COMMERCE_FEES \cup {"dunzo"}

\* margins in hundredths of a percent
Margins == {-500, 0, 500, 2500} \cup (900..2100)

\* margins the channel advice is asked about, in hundredths of a percent
ChannelMargins ==
  {-500, 999, 1000, 1200, 1499, 1500, 1999, 2000, 2499, 2500, 3499, 3500, 6000}

\* "Retail" is a channel name the advice has no branch for
AdviceChannels == Channels \cup {"Retail"}

MaxListings == 4

MaxMatches == 1

MaxItems == 2

SeqsUpTo(S, n) == UNION {[1..k -> S] : k \in 0..n}

Listings ==
  {[itemprice |-> JNum(40), fmt |-> "kg"],
   [itemprice |-> JNum(90), fmt |-> "kg"],
   [itemprice |-> JNum(60), fmt |-> "bag"],
   [itemprice |-> JNum(70), fmt |-> ""]}

Failed == [ok |-> FALSE, items |-> <<>>]

IndiamartPages ==
  {Failed} \cup {[ok |-> TRUE, items |-> s] : s \in SeqsUpTo(Listings, MaxListings)}

\* a result page with four price mentions
FourMatches == [ok |-> TRUE, items |-> <<80, 95, 80, 110>>]

GooglePages ==
  {Failed, FourMatches}
  \cup {[ok |-> TRUE, items |-> s] : s \in SeqsUpTo({3, 80}, MaxMatches)}

NoAnswer == [ok |-> FALSE, price_per_kg |-> JMissing, confidence |-> "missing"]

PriceAnswers ==
  {NoAnswer,
   [ok |-> TRUE, price_per_kg |-> JMissing, confidence |-> "missing"],
   [ok |-> TRUE, price_per_kg |-> JNum(120), confidence |-> "high"],
   [ok |-> TRUE, price_per_kg |-> JNum(0), confidence |-> "high"],
   [ok |-> TRUE, price_per_kg |-> JNum(-5), confidence |-> "missing"],
   [ok |-> TRUE, price_per_kg |-> JStr, confidence |-> "high"],
   [ok |-> TRUE, price_per_kg |-> JNull, confidence |-> "missing"]}

\* every source has its answer whether or not it is asked; without a key
\* there is no generated answer
PriceWorlds ==
  {w \in [api_key : BOOLEAN, indiamart : IndiamartPages, google : GooglePages,
          llm : PriceAnswers] :
     ~w.api_key => w.llm = NoAnswer}

Items ==
  {[dict |-> TRUE, ingredient |-> "sugar", quantity_grams |-> JNum(150)],
   [dict |-> TRUE, ingredient |-> "dragon fruit", quantity_grams |-> JMissing],
   [dict |-> TRUE, ingredient |-> "missing", quantity_grams |-> JStr],
   [dict |-> FALSE, ingredient |-> "missing", quantity_grams |-> JMissing]}

NoList == [ok |-> FALSE, items |-> <<>>]

\* a list longer than the fifteen entries the pricing loop takes
LongList ==
  [ok |-> TRUE,
   items |-> [i \in 1..16 |->
                [dict |-> TRUE, ingredient |-> "sugar", quantity_grams |-> JNum(150)]]]

AnalyzerAnswers ==
  {NoList, LongList} \cup {[ok |-> TRUE, items |-> s] : s \in SeqsUpTo(Items, MaxItems)}

NoEstimate == [ok |-> FALSE, total_manufacturing_cost |-> JMissing, reasoning |-> "missing"]

DirectAnswers ==
  {NoEstimate,
   [ok |-> TRUE, total_manufacturing_cost |-> JNum(Rupees(34) + 40 * Paisa),
    reasoning |-> "generated text"],
   [ok |-> TRUE, total_manufacturing_cost |-> JNum(Rupees(34) + 40 * Paisa),
    reasoning |-> "missing"],
   [ok |-> TRUE, total_manufacturing_cost |-> JNum(Rupees(-500)),
    reasoning |-> "generated text"],
   [ok |-> TRUE, total_manufacturing_cost |-> JMissing, reasoning |-> "generated text"],
   [ok |-> TRUE, total_manufacturing_cost |-> JStr, reasoning |-> "generated text"]}

\* the pricing outcomes an estimate is run against
EstimatePricing ==
  {[indiamart |-> Failed, google |-> Failed, llm |-> NoAnswer],
   [indiamart |-> [ok |-> TRUE, items |-> <<[itemprice |-> JNum(40), fmt |-> "kg"],
                                           [itemprice |-> JNum(90), fmt |-> "kg"]>>],
    google |-> Failed, llm |-> NoAnswer],
   [indiamart |-> Failed, google |-> Failed,
    llm |-> [ok |-> TRUE, price_per_kg |-> JNull, confidence |-> "missing"]]}

NoPricing == [indiamart |-> Failed, google |-> Failed, llm |-> NoAnswer]

EstimateWorlds ==
  {w \in [api_key : BOOLEAN, analyzer : AnalyzerAnswers, direct : DirectAnswers,
          indiamart : {q.indiamart : q \in EstimatePricing},
          google : {q.google : q \in EstimatePricing},
          llm : {q.llm : q \in EstimatePricing}] :
     /\ [indiamart |-> w.indiamart, google |-> w.google, llm |-> w.llm] \in EstimatePricing
     /\ ~w.api_key => (w.analyzer = NoList /\ w.direct = NoEstimate)
     /\ Len(w.analyzer.items) > 0 => w.direct = NoEstimate
     /\ Len(w.analyzer.items) = 0 =>
          [indiamart |-> w.indiamart, google |-> w.google, llm |-> w.llm] = NoPricing}

\* the worlds a whole evaluation is run against: no key; one ingredient
\* priced from the static table; an entry that is no object; no ingredient
\* list and no direct estimate, or each answer of the direct estimate that
\* states its reasoning
EvaluationWorlds ==
  {w \in EstimateWorlds :
     /\ w.indiamart = Failed /\ w.llm = NoAnswer
     /\ \/ ~w.api_key
        \/ /\ Len(w.analyzer.items) = 1
           /\ ~w.analyzer.items[1].dict \/ w.analyzer.items[1].ingredient = "sugar"
        \/ /\ w.analyzer = NoList
           /\ w.direct.ok => w.direct.reasoning # "missing"}

\* research runs and chat messages a session is followed through
MaxRuns == 2

MaxMessages == 2

\* for each persona: switched off, answering, or failing
AgentOutputs == UNION {[E -> {"text", "none"}] : E \in SUBSET AgentSet}

\* the discussion calls that are answered: all, none, all but the first
DiscussionReplies ==
  {{discussion_calls[i] : i \in 1..Len(discussion_calls)},
   {},
   {discussion_calls[i] : i \in 2..Len(discussion_calls)}}

\* the worlds the evaluation inside a research run is made in: a key, no
\* ingredient list, each answer of the direct estimate
ResearchWorlds ==
  {w \in EvaluationWorlds : w.api_key /\ w.analyzer = NoList}

\* the outcomes of the calls of a research run
ResearchInputs ==
  [world : ResearchWorlds, product_analysis : {"text", "none"},
   outputs : AgentOutputs, replies : DiscussionReplies, verdict : {"text", "none"}]

\* a key, and every external call of the evaluation failing
UnansweredWorld ==
  [api_key |-> TRUE, analyzer |-> NoList, direct |-> NoEstimate,
   indiamart |-> Failed, google |-> Failed, llm |-> NoAnswer]

\* the runs a session is followed through: the full board, one persona
\* only, and a board whose first persona fails
SessionRuns ==
  {[world |-> UnansweredWorld, product_analysis |-> "text", outputs |-> o,
    replies |-> {discussion_calls[i] : i \in 1..Len(discussion_calls)},
    verdict |-> "text"] :
     o \in {[a \in AgentSet |-> "text"],
            [a \in {"finance"} |-> "text"],
            [a \in AgentSet |-> IF a = "marketing" THEN "none" ELSE "text"]}}

-----------------------------------------------------------------------------
(* The calls.  The functions are pure: what a call returns depends on its  *)
(* arguments and on the external answers only, never on an earlier call,   *)
(* so each behaviour makes one call from the initial state; an evaluation  *)
(* can then be run again at a higher price.                                *)

Nothing == [op |-> "none"]

Init ==
  /\ call = Nothing
  /\ ret = Nothing
  /\ prev = [call |-> Nothing, ret |-> Nothing]
  /\ consulted = <<>>
  /\ session = InitialSession
  /\ evaluation = 0

CalculateUnitEconomics ==
  /\ call = Nothing
  /\ \E category \in Categories, weight \in Weights, mrp \in Prices,
       channel \in Channels, w \in EvaluationWorlds :
      /\ call' = [op |-> "calculate_unit_economics", category |-> category,
                  weight |-> weight, mrp |-> mrp, channel |-> channel, world |-> w]
      /\ ret' = calculate_unit_economics(category, weight, mrp, channel, w)
      /\ prev' = [call |-> Nothing, ret |-> Nothing]
      /\ consulted' = <<>>
      /\ UNCHANGED <<session, evaluation>>

\* the same evaluation run again at a higher price, every other input and
\* every external answer the same
Reprice ==
  /\ call.op = "calculate_unit_economics"
  /\ ~IsRaised(ret)
  /\ \E mrp \in Prices :
       /\ mrp > call.mrp
       /\ call' = [call EXCEPT !.mrp = mrp]
       /\ ret' = calculate_unit_economics(call.category, call.weight, mrp,
                                          call.channel, call.world)
       /\ prev' = [call |-> call, ret |-> ret]
       /\ consulted' = <<>>
       /\ UNCHANGED <<session, evaluation>>

GetRecommendation ==
  /\ call = Nothing
  /\ \E margin_percentage \in Margins :
      /\ call' = [op |-> "get_recommendation", margin_percentage |-> margin_percentage]
      /\ ret' = [verdict |-> get_recommendation(margin_percentage)]
      /\ prev' = [call |-> Nothing, ret |-> Nothing]
      /\ consulted' = <<>>
      /\ UNCHANGED <<session, evaluation>>

GetChannelRecommendation ==
  /\ call = Nothing
  /\ \E margin_percent \in ChannelMargins, current_channel \in AdviceChannels,
       category \in Categories :
      /\ call' = [op |-> "get_channel_recommendation", margin_percent |-> margin_percent,
                  current_channel |-> current_channel, category |-> category]
      /\ ret' = [message |->
                   get_channel_recommendation(margin_percent, current_channel, category)]
      /\ prev' = [call |-> Nothing, ret |-> Nothing]
      /\ consulted' = <<>>
      /\ UNCHANGED <<session, evaluation>>

GetPlatformFees ==
  /\ call = Nothing
  /\ \E mrp \in Prices, weight \in FeeWeights, category \in Categories,
       platform \in Platforms, shipping_zone \in ShippingZones :
      /\ call' = [op |-> "get_platform_fees", mrp |-> mrp, weight |-> weight,
                  category |-> category, platform |-> platform,
                  shipping_zone |-> shipping_zone]
      /\ ret' = get_platform_fees(mrp, weight, category, platform, shipping_zone)
      /\ prev' = [call |-> Nothing, ret |-> Nothing]
      /\ consulted' = <<>>
      /\ UNCHANGED <<session, evaluation>>

GetQuickCommerceFees ==
  /\ call = Nothing
  /\ \E mrp \in Prices, platform \in QuickCommerceApps :
      /\ call' = [op |-> "get_quick_commerce_fees", mrp |-> mrp, platform |-> platform]
      /\ ret' = get_quick_commerce_fees(mrp, platform)
      /\ prev' = [call |-> Nothing, ret |-> Nothing]
      /\ consulted' = <<>>
      /\ UNCHANGED <<session, evaluation>>

EstimatePackagingCost ==
  /\ call = Nothing
  /\ \E weight \in PackagingWeights, category \in Categories,
       packaging_type \in PackagingTypes :
      /\ call' = [op |-> "estimate_packaging_cost", weight |-> weight,
                  category |-> category, packaging_type |-> packaging_type]
      /\ ret' = estimate_packaging_cost(weight, category, packaging_type)
      /\ prev' = [call |-> Nothing, ret |-> Nothing]
      /\ consulted' = <<>>
      /\ UNCHANGED <<session, evaluation>>

\* the estimate asked again for another size or category, the packaging
\* type left unspecified both times
EstimatePackagingCostAgain ==
  /\ call.op = "estimate_packaging_cost"
  /\ call.packaging_type = ""
  /\ \E weight \in PackagingWeights, category \in Categories :
      /\ weight >= call.weight
      /\ <<weight, category>> # <<call.weight, call.category>>
      /\ call' = [call EXCEPT !.weight = weight, !.category = category]
      /\ ret' = estimate_packaging_cost(weight, category, "")
      /\ prev' = [call |-> call, ret |-> ret]
      /\ consulted' = <<>>
      /\ UNCHANGED <<session, evaluation>>

GetLiveIngredientPrice ==
  /\ call = Nothing
  /\ \E ingredient_name \in IngredientNames, w \in PriceWorlds :
      /\ call' = [op |-> "get_live_ingredient_price",
                  ingredient_name |-> ingredient_name, world |-> w]
      /\ ret' = get_live_ingredient_price(ingredient_name, w)
      /\ prev' = [call |-> Nothing, ret |-> Nothing]
      /\ consulted' = sources_consulted(ingredient_name, w)
      /\ UNCHANGED <<session, evaluation>>

ScrapeIndiamartPrice ==
  /\ call = Nothing
  /\ \E page \in IndiamartPages :
      /\ call' = [op |-> "scrape_indiamart_price", page |-> page]
      /\ ret' = scrape_indiamart_price(page)
      /\ prev' = [call |-> Nothing, ret |-> Nothing]
      /\ consulted' = <<>>
      /\ UNCHANGED <<session, evaluation>>

EstimateRawMaterialCost ==
  /\ call = Nothing
  /\ \E category \in Categories, weight \in EstimateWeights, w \in EstimateWorlds :
      /\ call' = [op |-> "estimate_raw_material_cost", category |-> category,
                  weight |-> weight, world |-> w]
      /\ ret' = estimate_raw_material_cost(category, weight, w)
      /\ prev' = [call |-> Nothing, ret |-> Nothing]
      /\ consulted' = <<>>
      /\ UNCHANGED <<session, evaluation>>

\* run_market_research_agent called in a fresh session, with the form's
\* defaults, against every combination of outcomes of its calls
RunMarketResearchAgent ==
  /\ call = Nothing
  /\ \E in \in ResearchInputs :
      LET out == run_market_research_agent(
                   session, 1,
                   calculate_unit_economics("Other", 200, 299, "E-commerce", in.world),
                   in)
      IN  /\ call' = [op |-> "run_market_research_agent", in |-> in]
          /\ ret' = out.ret
          /\ session' = out.session
          /\ evaluation' = 1
          /\ prev' = [call |-> Nothing, ret |-> Nothing]
          /\ consulted' = <<>>

\* a page action of the research page is possible
OnPage == call = Nothing \/ call.op \in {"run_research", "clear_results", "send", "clear_chat_history"}

\* the Run Research button: without a description or a key only an error
\* is shown
RunResearch ==
  /\ OnPage
  /\ \/ /\ call' = [op |-> "run_research", valid |-> FALSE]
        /\ ret' = [error |-> "Please describe your product"]
        /\ UNCHANGED <<session, evaluation>>
     \/ /\ evaluation < MaxRuns
        /\ \E in \in SessionRuns :
            LET out == run_market_research_agent(
                         session, evaluation + 1,
                         calculate_unit_economics("Other", 200, 299, "E-commerce", in.world),
                         in)
            IN  /\ call' = [op |-> "run_research", valid |-> TRUE]
                /\ ret' = out.ret
                /\ session' = research_stored(out)
                /\ evaluation' = evaluation + 1
  /\ prev' = [call |-> Nothing, ret |-> Nothing]
  /\ consulted' = <<>>

\* the Clear Results button
ClearResults ==
  /\ OnPage
  /\ call' = [op |-> "clear_results"]
  /\ ret' = Nothing
  /\ session' = [session EXCEPT !.research_complete = FALSE,
                                !.research_results = None,
                                !.competitors = None]
  /\ prev' = [call |-> Nothing, ret |-> Nothing]
  /\ consulted' = <<>>
  /\ UNCHANGED evaluation

\* the Send button of the chat tab: a blank question is refused, a failed
\* call leaves the history as it is
Send ==
  /\ OnPage
  /\ results_shown(session)
  /\ \E selected_agent \in AgentSet, user_question \in {"", "question"},
       response \in {"text", "none"} :
      /\ call' = [op |-> "send", selected_agent |-> selected_agent,
                  user_question |-> user_question]
      /\ IF user_question = "" THEN
           /\ ret' = [warning |-> "Please enter a question"]
           /\ UNCHANGED session
         ELSE IF response = "none" THEN
           /\ ret' = [error |-> "Failed to get response"]
           /\ UNCHANGED session
         ELSE
           /\ messages_held(session.chat_history, Len(AgentTypes)) < MaxMessages
           /\ ret' = [agent |-> response]
           /\ session' =
                [session EXCEPT !.chat_history[selected_agent] =
                   Append(@, [evaluation |-> evaluation])]
  /\ prev' = [call |-> Nothing, ret |-> Nothing]
  /\ consulted' = <<>>
  /\ UNCHANGED evaluation

\* the Clear Chat History button, shown under a history that is not empty
ClearChatHistory ==
  /\ OnPage
  /\ results_shown(session)
  /\ \E selected_agent \in AgentSet :
      /\ session.chat_history[selected_agent] # <<>>
      /\ call' = [op |-> "clear_chat_history", selected_agent |-> selected_agent]
      /\ session' = [session EXCEPT !.chat_history[selected_agent] = <<>>]
  /\ ret' = Nothing
  /\ prev' = [call |-> Nothing, ret |-> Nothing]
  /\ consulted' = <<>>
  /\ UNCHANGED evaluation

Next ==
  \/ CalculateUnitEconomics
  \/ Reprice
  \/ GetRecommendation
  \/ GetChannelRecommendation
  \/ GetPlatformFees
  \/ GetQuickCommerceFees
  \/ EstimatePackagingCost
  \/ EstimatePackagingCostAgain
  \/ ScrapeIndiamartPrice
  \/ GetLiveIngredientPrice
  \/ EstimateRawMaterialCost
  \/ RunMarketResearchAgent
  \/ RunResearch
  \/ ClearResults
  \/ Send
  \/ ClearChatHistory

Spec == Init /\ [][Next]_vars

-----------------------------------------------------------------------------
(* Properties of the aggregate report.  Report amounts are in paise,       *)
(* margin_percentage in tenths of a percent.                               *)

\* calculate_unit_economics returned a report
Returned == call.op = "calculate_unit_economics" /\ ~IsRaised(ret)

ComponentSum(r) ==
  r.manufacturing_cost + r.packaging_cost + r.platform_fees + r.logistics_cost
  + r.returns_cost + r.marketing_allocation + r.gst_liability

\* C1: in every report the seven reported components (manufacturing,
\* packaging, platform fees, logistics, returns, marketing, GST liability)
\* add up to the reported total_cost to within one rupee.
WaterfallConsistency ==
  Returned => Abs(ComponentSum(ret) - ret.total_cost) < 100

\* a report with a tax component whose rounded components do not add up
\* to the rounded total exactly
WaterfallWitness ==
  /\ Returned
  /\ ret.gst_liability > 0
  /\ ComponentSum(ret) # ret.total_cost

\* C2 as stated: net_margin is the price less the report's total_cost less
\* the report's gst_liability.
MarginIdentityAsStated ==
  Returned => ret.net_margin = 100 * call.mrp - ret.total_cost - ret.gst_liability

\* C2 as amended: the report's total_cost already contains gst_liability,
\* and net_margin is the price less that total_cost, to within one paisa of
\* rounding; the tax is subtracted once, through total_cost.
MarginIdentity ==
  Returned => Abs(ret.net_margin - (100 * call.mrp - ret.total_cost)) <= 1

\* a taxed report whose net margin is the price less its total cost
MarginIdentityWitness ==
  /\ Returned
  /\ ret.gst_liability > 0
  /\ ret.total_cost >= ret.gst_liability
  /\ ret.net_margin = 100 * call.mrp - ret.total_cost

\* C3: the reported net_margin is the price less the reported total_cost to
\* within one rupee, and the reported margin_percentage is
\* net_margin / price * 100 to within 0.5.
MarginReport ==
  Returned =>
    /\ Abs(ret.net_margin - (100 * call.mrp - ret.total_cost)) < 100
    /\ Abs(ret.margin_percentage * call.mrp - 10 * ret.net_margin) < 5 * call.mrp

\* a report whose percentage is a rounded one, of a negative margin
MarginReportWitness ==
  /\ Returned
  /\ ret.net_margin < 0
  /\ ret.margin_percentage * call.mrp # 10 * ret.net_margin

\* the evaluation was run again at a higher price
Repriced == Returned /\ prev.call.op = "calculate_unit_economics"

\* C5 as stated: at the higher of two prices the reported margin_percentage
\* is strictly greater.
MonotoneAsStated ==
  Repriced => ret.margin_percentage > prev.ret.margin_percentage

\* the closing / fixed fee brackets of the marketplaces
ClosingFeeBrackets == {50..300, 301..500, 501..1000, 1001..2000}

SameClosingFeeBracket(p1, p2) ==
  \E b \in ClosingFeeBrackets : p1 \in b /\ p2 \in b

\* C5 as amended: with a manufacturing estimate that is not negative, and,
\* on E-commerce, both prices in the same closing-fee bracket, the reported
\* margin_percentage at the higher price is not lower (it can be equal, as
\* it is rounded to one decimal).
Monotone ==
  (/\ Repriced
   /\ ret.manufacturing_cost >= 0
   /\ call.channel = "E-commerce" => SameClosingFeeBracket(prev.call.mrp, call.mrp))
  => ret.margin_percentage >= prev.ret.margin_percentage

\* an E-commerce evaluation repriced inside one bracket, its margin higher
MonotoneWitness ==
  /\ Repriced
  /\ call.channel = "E-commerce"
  /\ ret.manufacturing_cost >= 0
  /\ SameClosingFeeBracket(prev.call.mrp, call.mrp)
  /\ ret.margin_percentage > prev.ret.margin_percentage

RECURSIVE SumOver(_, _)
SumOver(S, mrp) ==
  IF S = {} THEN 0
  ELSE LET app == CHOOSE a \in S : TRUE
       IN  get_quick_commerce_fees(mrp, app).total_platform_fee + SumOver(S \ {app}, mrp)

\* the average total_platform_fee of a set of apps, rounded to paise
AverageFee(S, mrp) == RoundHalfEven(SumOver(S, mrp), Cardinality(S) * Paisa)

\* C10: on Quick Commerce the reported platform_fees is the average over
\* every app configured in QUICK_COMMERCE_FEES.
QuickCommerceAverageAsStated ==
  (Returned /\ call.channel = "Quick Commerce")
  => ret.platform_fees = AverageFee(DOMAIN QUICK_COMMERCE_FEES, call.mrp)

\* the report the same evaluation gets on another channel
OnChannel(channel) ==
  calculate_unit_economics(call.category, call.weight, call.mrp, channel, call.world)

\* C13: for the same category, weight, price and manufacturing estimate the
\* margin_percentage reported on Quick Commerce is strictly lower than the
\* one reported on E-commerce.
QuickCommerceMarginLower ==
  (Returned /\ call.channel = "Quick Commerce")
  => ret.margin_percentage < OnChannel("E-commerce").margin_percentage

\* external calls unavailable: no ingredient list and no direct estimate
StaticFallback == ~call.world.analyzer.ok /\ ~call.world.direct.ok

\* the scenario Packaged Snacks, 200 g, 299 rupees, E-commerce on the
\* static fallback tables
SnackScenario ==
  /\ Returned
  /\ StaticFallback
  /\ call.category = "Packaged Snacks" /\ call.weight = 200
  /\ call.mrp = 299 /\ call.channel = "E-commerce"

\* C15 as stated: the scenario reports total_cost 235.49, net_margin 63.51
\* and margin_percentage 21.2, each to within a rupee or half a point, and
\* the verdict on that margin is Go.
ScenarioAsStated ==
  SnackScenario =>
    /\ Abs(ret.total_cost - 23549) <= 100
    /\ Abs(ret.net_margin - 6351) <= 100
    /\ Abs(ret.margin_percentage - 212) <= 5
    /\ get_recommendation(10 * ret.margin_percentage) = "go"

\* C15 as amended: the scenario reports total_cost 279.29 (manufacturing
\* 22.68, packaging 11.33, platform fees 114.37, logistics 60, returns
\* 8.97, marketing 29.90, GST 32.04), net_margin 19.71 and
\* margin_percentage 6.6, and the verdict on that margin is NoGo.
Scenario ==
  SnackScenario =>
    /\ ret.manufacturing_cost = 2268 /\ ret.packaging_cost = 1133
    /\ ret.platform_fees = 11437 /\ ret.logistics_cost = 6000
    /\ ret.returns_cost = 897 /\ ret.marketing_allocation = 2990
    /\ ret.gst_liability = 3204
    /\ ret.total_cost = 27929
    /\ ret.net_margin = 1971
    /\ ret.margin_percentage = 66
    /\ get_recommendation(10 * ret.margin_percentage) = "nogo"

\* the scenario evaluated with a key whose every call fails
ScenarioWitness ==
  /\ SnackScenario
  /\ call.world.api_key
  /\ ret.manufacturing_breakdown.reasoning
       = "Fallback estimation based on category benchmarks"
  /\ ret.total_cost = 27929

-----------------------------------------------------------------------------
(* Properties of the verdict and of the platform fees *)

\* C4: the verdict is NoGo below 10%, Pilot from 10% to 20% inclusive, and
\* Go above 20%, whatever else holds.
VerdictByMargin ==
  call.op = "get_recommendation" =>
    /\ call.margin_percentage < 1000 => ret.verdict = "nogo"
    /\ (1000 <= call.margin_percentage /\ call.margin_percentage <= 2000)
         => ret.verdict = "pilot"
    /\ call.margin_percentage > 2000 => ret.verdict = "go"

\* exactly 20% is Pilot
VerdictWitness ==
  /\ call.op = "get_recommendation"
  /\ call.margin_percentage = 2000
  /\ ret.verdict = "pilot"

\* the tier of an advisory text of a channel: 1 lowest, 3 highest
Tier(message, current_channel) ==
  CHOOSE i \in 1..3 : channel_messages(current_channel)[i] = message

\* the tier the advice of another channel gives the margin of this call
TierOn(current_channel) ==
  Tier(get_channel_recommendation(call.margin_percent, current_channel, call.category),
       current_channel)

\* C12 as stated: the advice has three tiers per channel, and each Quick
\* Commerce threshold is lower than the E-commerce one: a margin is never
\* in a lower tier on Quick Commerce than it is on E-commerce.
ChannelTiersAsStated ==
  (call.op = "get_channel_recommendation" /\ call.current_channel = "Quick Commerce")
  => /\ ret.message \in {channel_messages("Quick Commerce")[i] : i \in 1..3}
     /\ Tier(ret.message, "Quick Commerce") >= TierOn("E-commerce")

\* C12 as amended: the advice has three tiers per channel, and each Quick
\* Commerce threshold (15%, 25%) is higher than the E-commerce one (10%,
\* 20%): a margin is never in a higher tier on Quick Commerce than it is on
\* E-commerce.
ChannelTiers ==
  (call.op = "get_channel_recommendation" /\ call.current_channel = "Quick Commerce")
  => /\ ret.message \in {channel_messages("Quick Commerce")[i] : i \in 1..3}
     /\ Tier(ret.message, "Quick Commerce") =
          (IF call.margin_percent < 1500 THEN 1
           ELSE IF call.margin_percent < 2500 THEN 2 ELSE 3)
     /\ TierOn("E-commerce") =
          (IF call.margin_percent < 1000 THEN 1
           ELSE IF call.margin_percent < 2000 THEN 2 ELSE 3)
     /\ Tier(ret.message, "Quick Commerce") <= TierOn("E-commerce")

\* a 12% margin: thin on Quick Commerce, acceptable on E-commerce
ChannelTiersWitness ==
  /\ call.op = "get_channel_recommendation"
  /\ call.current_channel = "Quick Commerce"
  /\ call.margin_percent = 1200
  /\ Tier(ret.message, "Quick Commerce") = 1
  /\ TierOn("E-commerce") = 2

\* get_platform_fees was asked about one of the two marketplaces
MarketplaceCall ==
  call.op = "get_platform_fees" /\ call.platform \in {"amazon", "flipkart"}

\* C8: for amazon and flipkart and each of the zones local, regional and
\* national, get_platform_fees returns a breakdown with a total.
FeesForEveryZone ==
  (MarketplaceCall /\ call.shipping_zone \in {"local", "regional", "national"})
  => (~IsRaised(ret) /\ ret.total_platform_fee > 0)

\* C14: at the same price the total_platform_fee of zepto is strictly
\* greater than the one of amazon in the national zone, for every weight
\* and category.
QuickCommerceFeesHigher ==
  (call.op = "get_quick_commerce_fees" /\ call.platform = "zepto")
  => \A weight \in Weights, category \in Categories :
       ret.total_platform_fee
         > get_platform_fees(call.mrp, weight, category, "amazon", "national").total_platform_fee

\* the rate table of a marketplace
RateTable(platform) ==
  IF platform = "amazon" THEN AMAZON_FEES.referral_fees
  ELSE FLIPKART_FEES.commission_rates

\* the rate the tables declare for a category on a marketplace
DeclaredRate(category, platform) ==
  LET mapped == IF category \in DOMAIN CATEGORY_TO_PLATFORM_CATEGORY
                  THEN CATEGORY_TO_PLATFORM_CATEGORY[category][platform]
                  ELSE "Other"
  IN  IF mapped \in DOMAIN RateTable(platform)
        THEN RateTable(platform)[mapped]
        ELSE RateTable(platform)["Other"]

\* the percentage fee of a breakdown: referral fee or commission
PercentageFee(r) ==
  IF r.platform = "Amazon" THEN r.referral_fee ELSE r.commission

\* C9: the rate used is the one the marketplace's table declares for the
\* mapped category, the table's "Other" rate for a category without a
\* mapping, and never zero.
CategoryMapping ==
  (MarketplaceCall /\ ~IsRaised(ret)) =>
    /\ ret.fee_breakdown.rate = DeclaredRate(call.category, call.platform)
    /\ ret.fee_breakdown.rate > 0
    /\ PercentageFee(ret) = call.mrp * ret.fee_breakdown.rate * Paisa

\* a category without a mapping charged Flipkart's "Other" rate
CategoryMappingWitness ==
  /\ MarketplaceCall
  /\ ~IsRaised(ret)
  /\ call.category \notin DOMAIN CATEGORY_TO_PLATFORM_CATEGORY
  /\ call.platform = "flipkart"
  /\ ret.fee_breakdown.rate = FLIPKART_FEES.commission_rates["Other"]

-----------------------------------------------------------------------------
(* Properties of the packaging estimate *)

\* estimate_packaging_cost chose the packaging itself
AutoPackaging == call.op = "estimate_packaging_cost" /\ call.packaging_type = ""

Bottles == {"bottle_plastic_small", "bottle_plastic_medium", "bottle_plastic_large",
            "bottle_glass_small", "bottle_glass_medium"}

Jars == {"jar_plastic", "jar_glass"}

\* C16 as stated: snacks under 100 g get the small pouch and snacks from
\* 100 g to 250 g the medium pouch; Beverages get a bottle or a tetrapack;
\* Supplements get a jar; the choice is always a type of the catalog.
PackagingSelectionAsStated ==
  AutoPackaging =>
    /\ (call.category = "Packaged Snacks" /\ call.weight < 100)
         => ret.packaging_type = "pouch_small"
    /\ (call.category = "Packaged Snacks" /\ 100 <= call.weight /\ call.weight <= 250)
         => ret.packaging_type = "pouch_medium"
    /\ call.category = "Beverages" => ret.packaging_type \in Bottles \cup {"tetrapack"}
    /\ call.category = "Supplements" => ret.packaging_type \in Jars
    /\ ret.packaging_type \in DOMAIN PACKAGING_COSTS_DETAILED

\* C16 as amended: snacks up to and including 100 g get the small pouch,
\* above 100 g up to 250 g the medium pouch, above 250 g up to 500 g the
\* large pouch, heavier ones the XL pouch; Beverages get a tetrapack up to
\* 200 g and a plastic bottle above; Supplements get the plastic jar up to
\* 100 g and the medium plastic bottle above; the choice is always a type
\* of the catalog, priced at the catalog's cost.
PackagingSelection ==
  AutoPackaging =>
    /\ call.category = "Packaged Snacks" =>
         ret.packaging_type = (IF call.weight <= 100 THEN "pouch_small"
                               ELSE IF call.weight <= 250 THEN "pouch_medium"
                               ELSE IF call.weight <= 500 THEN "pouch_large"
                               ELSE "pouch_xl")
    /\ call.category = "Beverages" =>
         ret.packaging_type = (IF call.weight <= 200 THEN "tetrapack"
                               ELSE IF call.weight <= 500 THEN "bottle_plastic_medium"
                               ELSE "bottle_plastic_large")
    /\ call.category = "Supplements" =>
         ret.packaging_type = (IF call.weight <= 100 THEN "jar_plastic"
                               ELSE "bottle_plastic_medium")
    /\ ret.packaging_type \in DOMAIN PACKAGING_COSTS_DETAILED
    /\ ret.primary_packaging
         = PACKAGING_COSTS_DETAILED[ret.packaging_type].cost * Paisa

\* a snack of exactly 100 g in the small pouch
PackagingSelectionWitness ==
  /\ AutoPackaging
  /\ call.category = "Packaged Snacks"
  /\ call.weight = 100
  /\ ret.packaging_type = "pouch_small"

-----------------------------------------------------------------------------
(* Properties of the fallback chains *)

PriceCall == call.op = "get_live_ingredient_price"

\* the order of the tiers, by the source name each puts on its quote
TierOrder ==
  <<"IndiaMART", "Google Search", "AI Estimate", "Database (Fallback)", "Default">>

Rank(source) == CHOOSE i \in 1..Len(TierOrder) : TierOrder[i] = source

\* the listings of the marketplace page that carry a usable per-kg price
Qualifying(page) ==
  {i \in 1..Len(page.items) :
     /\ listing_qualifies(page.items[i])
     /\ 5 < page.items[i].itemprice.v /\ page.items[i].itemprice.v < 5000}

\* would the source give a price to this call, were it asked?
Produces(source) ==
  CASE source = "IndiaMART" ->
         call.world.indiamart.ok /\ Qualifying(call.world.indiamart) # {}
    [] source = "Google Search" ->
         /\ call.world.google.ok
         /\ \E i \in 1..Len(call.world.google.items) :
              5 < call.world.google.items[i] /\ call.world.google.items[i] < 50000
    [] source = "AI Estimate" -> call.world.api_key /\ call.world.llm.ok
    [] source = "Database (Fallback)" ->
         static_key_of(call.ingredient_name) \in DOMAIN RAW_MATERIAL_COSTS
    [] OTHER -> TRUE

\* C17: the sources are asked in the one order IndiaMART, Google, text
\* generation, static table, default, each at most once; a source is asked
\* only when every source before it gave no price; and the quote is the one
\* of the first source that gave a price, which is the last one asked.
TierOrdering ==
  PriceCall =>
    /\ consulted # <<>>
    /\ \A i, j \in 1..Len(consulted) :
         i < j => Rank(consulted[i]) < Rank(consulted[j])
    /\ \A i \in 1..Len(consulted) :
         \A k \in 1..Len(TierOrder) :
           k < Rank(consulted[i]) => ~Produces(TierOrder[k])
    /\ ret.source = consulted[Len(consulted)]
    /\ Produces(ret.source)

\* a quote from the web search after an empty marketplace page, with a
\* text generation that would have answered but is not asked
TierOrderingWitness ==
  /\ PriceCall
  /\ consulted = <<"IndiaMART", "Google Search">>
  /\ ret.source = "Google Search"
  /\ call.world.api_key /\ call.world.llm.ok
  /\ call.world.indiamart.ok

\* C18: a quote from the marketplace lookup has confidence high if three or
\* more listings qualify and medium otherwise.
MarketplaceConfidence ==
  (PriceCall /\ ret.source = "IndiaMART") =>
    ret.confidence = (IF Cardinality(Qualifying(call.world.indiamart)) >= 3
                        THEN "high" ELSE "medium")

\* C19: a quote from the web search or from the text generation never has
\* a confidence above medium.
UnverifiedConfidence ==
  (PriceCall /\ ret.source \in {"Google Search", "AI Estimate"}) =>
    ret.confidence \in {"medium", "low"}

\* C20: a quote from the static table and a quote with the default price
\* both have confidence low.
StaticConfidence ==
  (PriceCall /\ ret.source \in {"Database (Fallback)", "Default"}) =>
    ret.confidence = "low"


\* the web-search matches that carry a usable price
Matching(page) ==
  {i \in 1..Len(page.items) : 5 < page.items[i] /\ page.items[i] < 50000}

\* the qualifying prices behind a scraped quote, by position on the page
ScrapedPrices ==
  IF ret.source = "IndiaMART"
    THEN [i \in Qualifying(call.world.indiamart) |->
            call.world.indiamart.items[i].itemprice.v]
    ELSE [i \in Matching(call.world.google) |-> call.world.google.items[i]]

\* the k-th smallest value of a family of numbers
Kth(f, k) ==
  CHOOSE v \in {f[i] : i \in DOMAIN f} :
    /\ Cardinality({i \in DOMAIN f : f[i] < v}) < k
    /\ k <= Cardinality({i \in DOMAIN f : f[i] <= v})

\* twice the median: the middle value counted twice, or the sum of the
\* two middle values of an even number of values
MedianTwice(f) ==
  LET n == Cardinality(DOMAIN f)
  IN  Kth(f, (n + 1) \div 2) + Kth(f, (n \div 2) + 1)

\* C21: the price of a scraped quote is the median of the qualifying
\* prices of the page it came from, for an odd and for an even number of
\* them.
ScrapedMedian ==
  (PriceCall /\ ret.scraped) =>
    2 * ret.price_per_kg.v = MedianTwice(ScrapedPrices)

\* a listing whose price format names the kilogram and no other unit
TaggedPerKilogram(item) == item.fmt = "kg"

\* C22: only listings explicitly tagged per kilogram contribute to the
\* marketplace result: it is the result of the page with every other
\* listing taken off.
PerKilogramOnly ==
  call.op = "scrape_indiamart_price" =>
    ret = scrape_indiamart_price(
            [ok |-> call.page.ok,
             items |-> SelectSeq(call.page.items, TaggedPerKilogram)])


\* an estimate made with the analyzer answering a non-empty list
AnalyzedCall ==
  /\ call.op = "estimate_raw_material_cost"
  /\ call.world.api_key /\ call.world.analyzer.ok
  /\ Len(call.world.analyzer.items) > 0

\* (quantity_grams / 1000) * price_per_kg of an entry of the breakdown
CostOf(m) == m.quantity_grams * m.cost_per_kg * (Scale \div 1000)

\* the sum of the costs of the first n entries of the breakdown
RECURSIVE CostOfFirst(_, _)
CostOfFirst(raw_materials, n) ==
  IF n = 0 THEN 0
  ELSE CostOf(raw_materials[n]) + CostOfFirst(raw_materials, n - 1)

\* the breakdown and the totals of the estimate are those of the list
Costed ==
  LET items == call.world.analyzer.items
      n == IF Len(items) < 15 THEN Len(items) ELSE 15
      raw_material_cost == CostOfFirst(ret.raw_materials, n)
      total == raw_material_cost
               + PercentOf(raw_material_cost,
                           Get(MANUFACTURING_OVERHEAD, call.category, 40))
  IN  /\ Len(ret.raw_materials) = n
      /\ \A i \in 1..n :
           /\ ret.raw_materials[i].name = ingredient_name_of(items[i])
           /\ ret.raw_materials[i].quantity_grams =
                JGet(items[i].quantity_grams, JNum(10)).v
           /\ ret.raw_materials[i].cost = Round2(CostOf(ret.raw_materials[i]))
      /\ ret.total_raw_material_cost = JNum(Round2(raw_material_cost))
      /\ ret.total_manufacturing_cost = JNum(Round2(total))
      /\ 2 * Abs(ret.cost_per_gram.v * call.weight - total)
           <= call.weight * (Scale \div 1000)

\* C23: with a non-empty ingredient list the estimate prices the first 15
\* entries at most, each at quantity_grams / 1000 times its price per kg,
\* and returns their sum, the sum with the category overhead, and that
\* total per gram; no price of one ingredient keeps the others from being
\* priced.
IngredientCosting == AnalyzedCall => (~IsRaised(ret) /\ Costed)


\* an estimate made with no ingredient list and no direct estimate: no
\* key, or both calls failing
UnassistedCall ==
  /\ call.op = "estimate_raw_material_cost"
  /\ ~call.world.api_key
     \/ /\ ~call.world.analyzer.ok \/ call.world.analyzer.items = <<>>
        /\ ~call.world.direct.ok

\* C24: without an ingredient list and without a direct estimate the
\* estimate is the category benchmark: raw material 0.7 x the category's
\* cost per gram (0.18 for a category the table lacks) x weight, overhead
\* at the category's rate, total their sum, which is above zero.
CategoryFallback ==
  UnassistedCall =>
    LET raw_material_cost ==
          (IF call.category \in DOMAIN base_cost_per_gram
             THEN base_cost_per_gram[call.category] ELSE 18)
          * call.weight * 7 * (Scale \div 1000)
        overhead ==
          PercentOf(raw_material_cost,
                    IF call.category \in DOMAIN MANUFACTURING_OVERHEAD
                      THEN MANUFACTURING_OVERHEAD[call.category] ELSE 40)
    IN  /\ ~IsRaised(ret)
        /\ ret.total_raw_material_cost = JNum(raw_material_cost)
        /\ ret.manufacturing_overhead_cost = JNum(overhead)
        /\ ret.total_manufacturing_cost = JNum(raw_material_cost + overhead)
        /\ ret.total_manufacturing_cost.v > 0
        /\ ret.cost_per_gram.v * call.weight = raw_material_cost + overhead

\* the fallback for a category no table knows, at the heaviest weight,
\* with a key but both calls failing
CategoryFallbackWitness ==
  /\ UnassistedCall
  /\ call.world.api_key
  /\ call.category = "Fashion" /\ call.weight = 1000
  /\ ret.total_manufacturing_cost = JNum(Rupees(176) + 40 * Paisa)


\* the price and weight brackets of the fee tables
PriceBracketOf(mrp) ==
  CASE mrp <= 300 -> "0-300"
    [] 301 <= mrp /\ mrp <= 500 -> "301-500"
    [] 501 <= mrp /\ mrp <= 1000 -> "501-1000"
    [] mrp > 1000 -> "1000+"

WeightBracketOf(weight) ==
  CASE weight <= 500 -> "0-500"
    [] 500 < weight /\ weight <= 1000 -> "500-1000"
    [] 1000 < weight /\ weight <= 2000 -> "1000-2000"
    [] weight > 2000 -> "2000+"

\* the fees of a marketplace breakdown before GST
FeeSum(r) ==
  IF r.platform = "Amazon"
    THEN r.referral_fee + r.closing_fee + r.weight_handling_fee
    ELSE r.commission + r.fixed_fee + r.shipping_fee + r.collection_fee

\* C25: an amazon or flipkart breakdown for a zone of the platform's table
\* totals the fee sum and 18% GST on the fee sum; the closing / fixed fee
\* is the one of the price bracket, the weight-handling / shipping fee the
\* one of the weight bracket of the zone, and flipkart's collection fee is
\* 2% of the price.
PlatformFeeComposition ==
  (MarketplaceCall /\ ~IsRaised(ret)) =>
    /\ ret.gst_on_fees = PercentOf(FeeSum(ret), 18)
    /\ ret.total_platform_fee = FeeSum(ret) + ret.gst_on_fees
    /\ call.platform = "amazon" =>
         /\ ret.closing_fee =
              Rupees(AMAZON_FEES.closing_fees[PriceBracketOf(call.mrp)])
         /\ ret.weight_handling_fee =
              Rupees(AMAZON_FEES.weight_handling[call.shipping_zone]
                                                [WeightBracketOf(call.weight)])
         /\ ret.referral_fee =
              PercentOf(Rupees(call.mrp), DeclaredRate(call.category, "amazon"))
    /\ call.platform = "flipkart" =>
         /\ ret.fixed_fee =
              Rupees(FLIPKART_FEES.fixed_fees[PriceBracketOf(call.mrp)])
         /\ ret.shipping_fee =
              Rupees(FLIPKART_FEES.shipping_fees[call.shipping_zone]
                                                [WeightBracketOf(call.weight)])
         /\ ret.commission =
              PercentOf(Rupees(call.mrp), DeclaredRate(call.category, "flipkart"))
         /\ ret.collection_fee = PercentOf(Rupees(call.mrp), 2)

\* amazon at 299 for a 500 g snack in the national zone: 23.92 + 26 + 57
\* and 19.2456 GST, where 18% of the price would be 53.82
PlatformFeeCompositionWitness ==
  /\ MarketplaceCall /\ call.platform = "amazon"
  /\ call.mrp = 299 /\ call.weight = 500 /\ call.shipping_zone = "national"
  /\ call.category = "Packaged Snacks"
  /\ ret.gst_on_fees = Rupees(19) + 2456 * (Scale \div 10000)
  /\ ret.total_platform_fee = Rupees(126) + 1656 * (Scale \div 10000)


\* two estimates with the packaging type unspecified, the later one for a
\* weight that is not lower
Repacked == AutoPackaging /\ prev.call.op = "estimate_packaging_cost"

\* the catalog's weight capacity of the packaging of an estimate
CapacityOf(r) == PACKAGING_COSTS_DETAILED[r.packaging_type].weight_capacity

\* catalog types by the size their name states
SmallTypes ==
  {"pouch_small", "box_small", "bottle_plastic_small", "bottle_glass_small"}

MediumOrLargeTypes ==
  {"pouch_medium", "pouch_large", "box_medium", "box_large",
   "bottle_plastic_medium", "bottle_plastic_large", "bottle_glass_medium"}

\* C26: for one category the cost and the weight capacity of the selected
\* packaging do not fall as the weight grows; a 100 g snack gets a small
\* type and a 500 g snack a medium or large one; at one weight Packaged
\* Snacks and Beverages get different types.
LargerPackaging ==
  /\ (Repacked /\ prev.call.category = call.category) =>
       /\ ret.primary_packaging >= prev.ret.primary_packaging
       /\ ret.total_packaging_cost >= prev.ret.total_packaging_cost
       /\ CapacityOf(ret) >= CapacityOf(prev.ret)
  /\ (AutoPackaging /\ call.category = "Packaged Snacks") =>
       /\ call.weight = 100 => ret.packaging_type \in SmallTypes
       /\ call.weight = 500 => ret.packaging_type \in MediumOrLargeTypes
  /\ (/\ Repacked
      /\ prev.call.weight = call.weight
      /\ {prev.call.category, call.category} = {"Packaged Snacks", "Beverages"}) =>
       ret.packaging_type # prev.ret.packaging_type

\* a beverage of 200 g in the tetrapack, then of 500 g in the medium
\* bottle: same capacity, higher cost
LargerPackagingWitness ==
  /\ Repacked
  /\ call.category = "Beverages" /\ prev.call.category = "Beverages"
  /\ prev.call.weight = 200 /\ call.weight = 500
  /\ prev.ret.packaging_type = "tetrapack"
  /\ ret.packaging_type = "bottle_plastic_medium"
  /\ CapacityOf(ret) = CapacityOf(prev.ret)
  /\ ret.primary_packaging > prev.ret.primary_packaging

\* C27: the packaging selected for a weight of the form's range holds the
\* product: its catalog weight capacity is at least the weight.
PackagingHoldsProduct ==
  (AutoPackaging /\ 50 <= call.weight /\ call.weight <= 1000) =>
    CapacityOf(ret) >= call.weight


\* C28: on E-commerce the channel recommendation of a report is the very
\* low one exactly when get_recommendation gives NoGo for the report's
\* margin_percentage, the tight one exactly when it gives Pilot and the
\* healthy one exactly when it gives Go.
AdviceAgreesWithVerdict ==
  (Returned /\ call.channel = "E-commerce") =>
    LET verdict == get_recommendation(ret.margin_percentage * 10)
    IN  /\ verdict = "nogo" <=> Tier(ret.channel_recommendation, "E-commerce") = 1
        /\ verdict = "pilot" <=> Tier(ret.channel_recommendation, "E-commerce") = 2
        /\ verdict = "go" <=> Tier(ret.channel_recommendation, "E-commerce") = 3


-----------------------------------------------------------------------------
(* Properties of the research run and of the session *)

\* a research run whose own evaluation of the unit economics returned
ResearchCall ==
  /\ call.op = "run_market_research_agent"
  /\ ~IsRaised(calculate_unit_economics("Other", 200, 299, "E-commerce",
                                        call.in.world))

\* C29: a research run returns its results record whatever the persona
\* calls return: the outputs are recorded as they came, a board of two or
\* more personas holds its discussion, and the verdict step runs, with no
\* exception raised.
BoardSurvivesFailedCalls ==
  ResearchCall =>
    /\ ~IsRaised(ret)
    /\ ret.agent_outputs = call.in.outputs
    /\ ret.board_verdict = call.in.verdict
    /\ Cardinality(DOMAIN call.in.outputs) >= 2 =>
         session.board_discussion.evaluation = evaluation

\* C30: the session holds nothing of an earlier evaluation: every chat
\* message, and the agent outputs, belong to the most recent research run,
\* and clearing the results leaves neither chat messages nor agent outputs.
SessionScopedToEvaluation ==
  /\ \A a \in AgentSet :
       \A i \in 1..Len(session.chat_history[a]) :
         session.chat_history[a][i].evaluation = evaluation
  /\ DOMAIN session.agent_outputs.outputs # {} =>
       session.agent_outputs.evaluation = evaluation
  /\ call.op = "clear_results" =>
       /\ \A a \in AgentSet : session.chat_history[a] = <<>>
       /\ DOMAIN session.agent_outputs.outputs = {}


\* C6: every quote has a numeric price_per_kg above zero and a source.
FallbackCompleteness ==
  call.op = "get_live_ingredient_price" =>
    /\ IsNum(ret.price_per_kg)
    /\ ret.price_per_kg.v > 0
    /\ ret.source # ""

\* C7: every estimate has a numeric total_manufacturing_cost and a
\* reasoning, and the aggregator can therefore always finish.
EstimateAlwaysPopulated ==
  /\ call.op = "estimate_raw_material_cost" =>
       /\ ~IsRaised(ret)
       /\ IsNum(ret.total_manufacturing_cost)
       /\ ret.reasoning # "missing"
  /\ call.op = "calculate_unit_economics" => ~IsRaised(ret)

=============================================================================
